---- MODULE Spec2Model ----
(***************************************************************************)
(* A model of the Page9 runtime kernel (the service worker): route and     *)
(* mount resolution, the caching strategies, the cache lifecycle and the   *)
(* control messages; and of the client runtime (the worker pool and the    *)
(* dispatcher of worker calls) with the worker scripts.                    *)
(*                                                                         *)
(* Strings are sequences of one-character strings, so that prefix tests,   *)
(* slicing, the pattern-to-regex conversion and URL resolution are         *)
(* computed character by character, as the code computes them.             *)
(***************************************************************************)
EXTENDS Integers, Sequences, FiniteSets, TLC

(***************************************************************************)
(* Bounds of the model.                                                    *)
(***************************************************************************)
\* longest route pattern drawn in the pattern specification
MaxPatLen == 3
\* longest request pathname drawn in the pattern specification
MaxPathLen == 3
\* most route entries of a configuration in the resolution specification
MaxRoutes == 2
\* most mount entries of a configuration in the resolution specification
MaxMounts == 2

\* characters a request pathname is made of
PathChars == {"/", "a", "."}
\* characters a route pattern is made of: the wildcard, regex metacharacters, literals
PatChars == {"/", "a", ".", "*", "+"}

\* all sequences over S of length lo..hi
SeqsOf(S, lo, hi) == UNION {[1..n -> S] : n \in lo..hi}

\* s.startsWith(p)
StartsWith(s, p) == Len(p) <= Len(s) /\ SubSeq(s, 1, Len(p)) = p

\* s.substring(n): s without its first n characters
Substring(s, n) == SubSeq(s, n + 1, Len(s))

(***************************************************************************)
(* matchPattern: the pattern is rewritten into regular-expression source   *)
(* (every * becomes .*, every / becomes \/), compiled, and tested against  *)
(* the whole pathname (^...$).                                             *)
(***************************************************************************)
\* pattern.replace(/\*/g, '.*')
RECURSIVE ReplaceStar(_)
ReplaceStar(p) ==
  IF p = <<>> THEN <<>>
  ELSE (IF Head(p) = "*" THEN <<".", "*">> ELSE <<Head(p)>>) \o ReplaceStar(Tail(p))

\* .replace(/\//g, '\\/')
RECURSIVE EscapeSlash(_)
EscapeSlash(p) ==
  IF p = <<>> THEN <<>>
  ELSE (IF Head(p) = "/" THEN <<"\\", "/">> ELSE <<Head(p)>>) \o EscapeSlash(Tail(p))

RegexSource(pattern) == EscapeSlash(ReplaceStar(pattern))

Quantifiers == {"*", "+"}

\* the marker RegexTerms ends with when the source does not compile
SyntaxErrorTerm == [atom |-> [kind |-> "lit", ch |-> ""], q |-> "SyntaxError"]

RegexInvalid(terms) == terms # <<>> /\ terms[Len(terms)].q = "SyntaxError"

\* new RegExp(src): the terms of the source, each an atom with an optional
\* quantifier; <<SyntaxErrorTerm>> when a quantifier has nothing to repeat.
\* An atom is a literal character ("lit"), an escaped character ("lit") or
\* the dot ("any").
RECURSIVE RegexTerms(_)
RegexTerms(src) ==
  IF src = <<>> THEN <<>>
  ELSE IF Head(src) \in Quantifiers THEN <<SyntaxErrorTerm>>
  ELSE
    LET esc  == Head(src) = "\\" /\ Len(src) >= 2
        atom == IF esc THEN [kind |-> "lit", ch |-> src[2]]
                ELSE IF Head(src) = "." THEN [kind |-> "any", ch |-> "."]
                ELSE [kind |-> "lit", ch |-> Head(src)]
        rest == IF esc THEN Tail(Tail(src)) ELSE Tail(src)
        q    == IF rest # <<>> /\ Head(rest) \in Quantifiers THEN Head(rest) ELSE "1"
        tl   == RegexTerms(IF q = "1" THEN rest ELSE Tail(rest))
    IN IF RegexInvalid(tl) THEN <<SyntaxErrorTerm>>
       ELSE <<[atom |-> atom, q |-> q]>> \o tl

AtomAccepts(atom, c) == atom.kind = "any" \/ atom.ch = c

\* the terms from index i on match exactly the characters of s from index j on;
\* more = TRUE while inside the repetition of term i
RECURSIVE TermsMatch(_, _, _, _, _)
TermsMatch(terms, i, s, j, more) ==
  IF i > Len(terms) THEN j > Len(s)
  ELSE
    LET t    == terms[i]
        here == j <= Len(s) /\ AtomAccepts(t.atom, s[j])
    IN IF t.q = "1" THEN here /\ TermsMatch(terms, i + 1, s, j + 1, FALSE)
       ELSE IF t.q = "+" /\ ~more THEN here /\ TermsMatch(terms, i, s, j + 1, TRUE)
       ELSE \/ TermsMatch(terms, i + 1, s, j, FALSE)
            \/ here /\ TermsMatch(terms, i, s, j + 1, TRUE)

\* matchPattern(pathname, pattern): "throw" (RegExp's SyntaxError), "yes" or "no"
matchPattern(pathname, pattern) ==
  LET terms == RegexTerms(RegexSource(pattern))
  IN IF RegexInvalid(terms) THEN "throw"
     ELSE IF TermsMatch(terms, 1, pathname, 1, FALSE) THEN "yes" ELSE "no"

(***************************************************************************)
(* new URL(ref, self.location.origin): the reference is resolved against   *)
(* the origin's root.  A reference that starts with two slashes names      *)
(* another host; dot segments are removed; braces are percent-encoded.     *)
(***************************************************************************)
\* index of the first slash of s, or 0
RECURSIVE FirstSlash(_, _)
FirstSlash(s, i) ==
  IF i > Len(s) THEN 0 ELSE IF s[i] = "/" THEN i ELSE FirstSlash(s, i + 1)

\* s split at its slashes
RECURSIVE SplitSlash(_)
SplitSlash(s) ==
  LET k == FirstSlash(s, 1)
  IN IF k = 0 THEN <<s>> ELSE <<SubSeq(s, 1, k - 1)>> \o SplitSlash(Substring(s, k))

\* the URL parser's path state: "." is dropped, ".." removes the segment before
\* it, and either of them as the last segment leaves an empty last segment
RECURSIVE RemoveDotSegments(_, _)
RemoveDotSegments(segs, out) ==
  IF segs = <<>> THEN out
  ELSE
    LET g    == Head(segs)
        last == Len(segs) = 1
        kept == IF g = <<".", ".">> THEN (IF out = <<>> THEN <<>> ELSE SubSeq(out, 1, Len(out) - 1))
                ELSE IF g = <<".">> THEN out
                ELSE Append(out, g)
    IN RemoveDotSegments(Tail(segs),
         IF last /\ g \in {<<".">>, <<".", ".">>} THEN Append(kept, <<>>) ELSE kept)

\* the path percent-encode set, for the characters of this model
RECURSIVE PercentEncode(_)
PercentEncode(s) ==
  IF s = <<>> THEN <<>>
  ELSE (IF Head(s) = "{" THEN <<"%", "7", "B">>
        ELSE IF Head(s) = "}" THEN <<"%", "7", "D">>
        ELSE <<Head(s)>>) \o PercentEncode(Tail(s))

\* the segments serialised: a slash before each
RECURSIVE JoinSlash(_)
JoinSlash(segs) ==
  IF segs = <<>> THEN <<>> ELSE <<"/">> \o Head(segs) \o JoinSlash(Tail(segs))

\* the pathname of an absolute path reference (abs starts with a slash)
NormalizePath(abs) ==
  JoinSlash(RemoveDotSegments(SplitSlash(PercentEncode(Substring(abs, 1))), <<>>))

\* s without its leading slashes
RECURSIVE StripSlashes(_)
StripSlashes(s) == IF s # <<>> /\ Head(s) = "/" THEN StripSlashes(Tail(s)) ELSE s

\* new URL(ref, self.location.origin): kind "url" with the origin ("self" or
\* "other"), host and pathname, or kind "TypeError" (no host after the slashes)
ParseURL(ref) ==
  IF Len(ref) >= 2 /\ ref[1] = "/" /\ ref[2] = "/" THEN
    LET auth == StripSlashes(ref)
        k    == FirstSlash(auth, 1)
    IN IF auth = <<>> THEN [kind |-> "TypeError", origin |-> "none", host |-> <<>>, path |-> <<>>]
       ELSE [kind |-> "url", origin |-> "other",
             host |-> IF k = 0 THEN auth ELSE SubSeq(auth, 1, k - 1),
             path |-> IF k = 0 THEN <<"/">> ELSE NormalizePath(Substring(auth, k - 1))]
  ELSE [kind |-> "url", origin |-> "self", host |-> <<>>,
        path |-> NormalizePath(IF ref # <<>> /\ Head(ref) = "/" THEN ref ELSE <<"/">> \o ref)]

\* a same-origin URL with this pathname
SameOrigin(path) == [kind |-> "url", origin |-> "self", host |-> <<>>, path |-> path]

\* the strings that are the pathname of some same-origin request URL
IsPathname(s) == s # <<>> /\ Head(s) = "/" /\ NormalizePath(s) = s

(***************************************************************************)
(* The configuration (page9.config.json).  routes is the route table in    *)
(* declaration order (Object.entries order; keys are distinct), mounts is  *)
(* namespace.mounts in declaration order.  hasRoutes / hasMounts say       *)
(* whether the field is present at all.                                    *)
(***************************************************************************)
\* the kernel's version and the name of its cache
KERNEL_VERSION == "0.1.0"
\* a cache name is the sequence of its pieces, each dash a piece of its own
CACHE_NAME == <<"page9", "-", "kernel", "-", "v", KERNEL_VERSION>>

\* kernelConfig before any load has completed
NoConfig == [loaded |-> FALSE]

\* kernel.cachingStrategy when the configuration file has none (or holds a falsy
\* value such as "" or null there)
NoStrategy == ""

MkConfig(routes, mounts, strategy) ==
  [loaded |-> TRUE, hasRoutes |-> TRUE, routes |-> routes,
   hasMounts |-> TRUE, mounts |-> mounts, strategy |-> strategy]

\* getDefaultConfig()
getDefaultConfig == MkConfig(<<>>, <<>>, "cache-first")

\* the result of matchRoute: the route found (by its place in the table), none, or
\* the exception of a pattern that does not compile
RouteResult(kind, index) == [kind |-> kind, index |-> index]

\* lines 172-176: the entries from index i on, in declaration order
RECURSIVE MatchRouteScan(_, _, _)
MatchRouteScan(routes, pathname, i) ==
  IF i > Len(routes) THEN RouteResult("none", 0)
  ELSE LET m == matchPattern(pathname, routes[i].pattern)
       IN IF m = "throw" THEN RouteResult("throw", i)
          ELSE IF m = "yes" THEN RouteResult("route", i)
          ELSE MatchRouteScan(routes, pathname, i + 1)

\* kernelConfig.routes[pathname]: the place of the entry with this key, or 0
ExactRoute(routes, pathname) ==
  IF \E i \in 1..Len(routes) : routes[i].pattern = pathname
  THEN CHOOSE i \in 1..Len(routes) : routes[i].pattern = pathname
  ELSE 0

matchRoute(cfg, pathname) ==
  IF ~cfg.hasRoutes THEN RouteResult("none", 0)
  ELSE IF ExactRoute(cfg.routes, pathname) # 0
       THEN RouteResult("route", ExactRoute(cfg.routes, pathname))
  ELSE MatchRouteScan(cfg.routes, pathname, 1)

\* line 204 without the comparison of lengths: the last matching mount wins
MountBetterAnyLength(mount, pathname, bestLength) ==
  StartsWith(pathname, mount.path) /\ Len(mount.path) > 0

\* line 204 with >= in place of >: of equally long mounts the last one wins
MountBetterOrEqual(mount, pathname, bestLength) ==
  StartsWith(pathname, mount.path) /\ Len(mount.path) > 0 /\ Len(mount.path) >= bestLength

\* the test of line 204 on one mount
MountBetter(mount, pathname, bestLength) ==
  StartsWith(pathname, mount.path) /\ Len(mount.path) > bestLength

\* lines 203-208: bestMatch (a place in the list, 0 for null) after the mounts from i on
RECURSIVE FindMountScan(_, _, _, _)
FindMountScan(mounts, pathname, i, bestMatch) ==
  IF i > Len(mounts) THEN bestMatch
  ELSE FindMountScan(mounts, pathname, i + 1,
         IF MountBetter(mounts[i], pathname,
                        IF bestMatch = 0 THEN 0 ELSE Len(mounts[bestMatch].path))
         THEN i ELSE bestMatch)

\* findMount: the place of the mount found, 0 for null
findMount(cfg, pathname) ==
  IF ~cfg.hasMounts THEN 0 ELSE FindMountScan(cfg.mounts, pathname, 1, 0)

(***************************************************************************)
(* Requests and responses.  A request is its method and its same-origin    *)
(* pathname; a fetch is the URL and method of the Request handed to        *)
(* fetch().                                                                *)
(***************************************************************************)
Methods == {"GET", "POST"}

Request(method, pathname) == [method |-> method, pathname |-> pathname]

NoFetch == [url |-> [kind |-> "none", origin |-> "none", host |-> <<>>, path |-> <<>>],
            method |-> "none"]

\* what a handler does up to its first suspension: the branch taken (via), the
\* place of the route or mount used, the fetch it issues (NoFetch if none) and the
\* response it returns at once (status 0 if none)
Plan(via, index, fetch, status, body) ==
  [via |-> via, index |-> index, fetch |-> fetch, status |-> status, body |-> body]

\* handleRouteRequest with a {...} token of the file replaced by the request's path
handleRouteRequestSubstituting(request, route, index) ==
  LET file    == IF \E i \in 1..Len(route.file) : route.file[i] = "{"
                 THEN request.pathname ELSE route.file
      fileUrl == ParseURL(file)
  IN IF fileUrl.kind = "TypeError"
     THEN Plan("route", index, NoFetch, 404, "Route not found")
     ELSE Plan("route", index, [url |-> fileUrl, method |-> request.method], 0, "")

\* handleRouteRequest up to "await fetch(fileRequest)"
handleRouteRequest(request, route, index) ==
  LET fileUrl == ParseURL(route.file)
  IN IF fileUrl.kind = "TypeError"
     THEN Plan("route", index, NoFetch, 404, "Route not found")
     ELSE Plan("route", index, [url |-> fileUrl, method |-> request.method], 0, "")

\* handleMountRequest up to "return fetch(...)"
handleMountRequest(request, mount, index) ==
  LET relativePath == Substring(request.pathname, Len(mount.path))
      targetPath   == mount.target \o relativePath
      targetUrl    == ParseURL(targetPath)
  IN IF targetUrl.kind = "TypeError"
     THEN Plan("mount", index, NoFetch, 404, "Mount point not accessible")
     ELSE Plan("mount", index, [url |-> targetUrl, method |-> request.method], 0, "")

\* handleRequest from line 145 on, with kernelConfig = cfg: via "raise" when
\* matchRoute throws, via "default" when handleDefaultRequest takes the request
handleRequest(cfg, request) ==
  LET route == matchRoute(cfg, request.pathname)
      mount == findMount(cfg, request.pathname)
  IN IF route.kind = "throw" THEN Plan("raise", route.index, NoFetch, 0, "SyntaxError")
     ELSE IF route.kind = "route"
          THEN handleRouteRequest(request, cfg.routes[route.index], route.index)
     ELSE IF mount # 0
          THEN handleMountRequest(request, cfg.mounts[mount], mount)
     ELSE Plan("default", 0, NoFetch, 0, "")

(***************************************************************************)
(* State.                                                                  *)
(***************************************************************************)
VARIABLES
  kernelConfig,  \* the kernel's current configuration (line 15)
  phase,         \* where the service worker is in its life: install, activate, active
  otherCaches,   \* the names CacheStorage holds besides CACHE_NAME
  cleaning,      \* the names cleanOldCaches has still to delete
  installBody,   \* the content of the response the install event's load has fetched
  currentCache,  \* the Cache object CacheStorage holds under CACHE_NAME (0: none)
  cacheObjs,     \* the entries of every Cache object, whether still named or deleted
  writers,       \* for every entry, the request whose cache.put stored it (0: none)
  objCount,      \* the number of Cache objects created so far
  reqs,          \* the fetch events: each request's position in handleRequest
  puts,          \* the cache.put calls that were started and have not completed
  ctl,           \* the control messages: each one's position in the message listener
  uncleared,     \* the requests that completed after the last CLEAR_CACHE
  restarts,      \* how often the browser has stopped and restarted the idle worker
  probe,         \* the last application of a pure function, with its result
  page9,         \* the Page9 instance of the page: config, workers, workerPool
  calls,         \* the calls of sendToWorker: promise, handler and timer of each
  contexts       \* the worker execution contexts: script, inbox, outbox, taskCount

kernelVars == <<phase, otherCaches, cleaning, installBody, currentCache, cacheObjs, writers,
                objCount, reqs, puts, ctl, uncleared, restarts>>

clientVars == <<page9, calls, contexts>>

vars == <<kernelConfig, kernelVars, probe, clientVars>>

(***************************************************************************)
(* The kernel's state: caches, requests, control messages.                 *)
(***************************************************************************)
\* most events the environment sends in a run: fetch events, control messages and
\* restarts of the idle worker together
MaxEvents == 2

ReqIds == 1..MaxEvents
MsgIds == 1..MaxEvents
\* a Cache object is created by caches.open when CacheStorage holds none of the name:
\* the one there at the start and one more after each CLEAR_CACHE
ObjIds == 1..(MaxEvents + 1)

\* the caches of two older kernel versions, of another application, and one whose
\* name is close to the kernel's prefix
OLD_CACHE == <<"page9", "-", "kernel", "-", "v", "0.0.9">>
OLDER_CACHE == <<"page9", "-", "kernel", "-", "v", "0.0.8">>
APP_CACHE == <<"app", "-", "cache">>
NEAR_CACHE == <<"page9", "-", "kernels">>

\* the requests of the kernel specification, all of them GET requests: a resource
\* no route or mount covers, a routed path and a mounted path
XPath == <<"/", "x">>
KernelRequests ==
  { Request("GET", XPath),
    Request("GET", <<"/", "r">>), Request("GET", <<"/", "m", "/", "x">>) }

\* the keys of cache entries: a request's URL (only GET requests are stored)
CacheKeys == {q.pathname : q \in KernelRequests}

\* the configurations page9.config.json may hold in the kernel specification: the
\* default one, one with a route, a mount and a strategy the kernel does not know,
\* and one for each of the other two strategies
KernelConfigs ==
  { getDefaultConfig,
    MkConfig(<<[pattern |-> <<"/", "r">>, file |-> <<"/", "d">>]>>,
             <<[path |-> <<"/", "m">>, target |-> <<"/", "t">>]>>, "network-only"),
    MkConfig(<<>>, <<>>, "network-first"),
    MkConfig(<<>>, <<>>, "stale-while-revalidate") }

\* the bodies the network may answer a fetch with
Bodies == {"v1", "v2"}

\* a response: status 0 stands for no response
Response(status, body) == [status |-> status, body |-> body]
NoResponse == Response(0, "")

\* what fetch() may do: resolve with an ok response, resolve with a response that
\* is not ok, or reject (a hard network failure)
NetOutcomes ==
  {[kind |-> "ok", response |-> Response(200, b)] : b \in Bodies}
  \cup {[kind |-> "notok", response |-> Response(404, "Not Found")],
        [kind |-> "fail", response |-> NoResponse]}

EmptyCache == [k \in CacheKeys |-> NoResponse]
NoWriters == [k \in CacheKeys |-> 0]

\* no response of fetch(CONFIG_PATH) at hand
NoBody == [ok |-> FALSE, config |-> NoConfig]

\* a fetch event that has not been dispatched yet
IdleReq ==
  [id |-> 0, pc |-> "idle", method |-> "none", pathname |-> <<>>, via |-> "none",
   strategy |-> "none", fetch |-> NoFetch, cache |-> 0, lookup |-> NoResponse,
   fetches |-> 0, net |-> "none", fetched |-> NoResponse,
   bg |-> "none", unhandled |-> FALSE, response |-> NoResponse, source |-> "none",
   raised |-> FALSE, after |-> {}, afterBg |-> {}, since |-> {}, body |-> NoBody,
   config |-> NoConfig]

\* what is posted on a message's port
NoReply == [kind |-> "none"]
SuccessReply == [kind |-> "success", success |-> TRUE]

\* a control message that has not been sent yet
IdleMsg ==
  [type |-> "none", pc |-> "idle", reply |-> NoReply, replies |-> 0, existed |-> FALSE,
   entriesAtReply |-> 0, body |-> NoBody]

(***************************************************************************)
(* The page's state: the Page9 instance (src/page9.js), the calls of       *)
(* sendToWorker and the worker execution contexts.                         *)
(***************************************************************************)
\* most operations of the page in a run (calls of sendToWorker, getKernelStatus,
\* reloadConfig and clearCache)
MaxCalls == 2
\* largest workers.pool.min and longest workers.modules of a configuration
MaxPoolMin == 2
MaxModules == 2

CallIds == 1..MaxCalls
\* a context is created for each worker of the pool and for each module
CtxIds == 1..(MaxPoolMin + MaxModules)

\* `worker-${i}`
PoolName(i) == <<"worker-", i>>
\* the names of the configured modules: one of them is the name of a pool worker
ModuleNames == {<<"example">>, <<"extra">>, PoolName(0)}
WorkerNames == {PoolName(i) : i \in 0..(MaxPoolMin - 1)} \cup ModuleNames

NoClientConfig == [loaded |-> FALSE]

\* the Map this.workers without entries (0: no worker of that name)
NoWorkers == [n \in WorkerNames |-> 0]

\* the Page9 instance after its constructor (lines 8-14): init() waits for the
\* registration of the kernel
NewPage9 ==
  [config |-> NoClientConfig, stage |-> "registering", body |-> NoBody,
   workers |-> NoWorkers, workerPool |-> <<>>, modulesLeft |-> <<>>, created |-> 0,
   reload |-> "none", posted |-> <<>>, ops |-> 0]

\* a context no Worker was constructed for
NoContext == [script |-> "none", inbox |-> <<>>, outbox |-> <<>>, taskCount |-> 0,
              computes |-> 0]

\* a call of sendToWorker that was not made
IdleCall ==
  [state |-> "idle", name |-> <<>>, worker |-> 0, id |-> <<>>, handler |-> FALSE,
   timer |-> "none", outcome |-> [kind |-> "none", value |-> [kind |-> "undefined"],
                                  message |-> <<>>],
   settled |-> 0, by |-> "none"]

\* the page's variables of the specifications of the kernel and of pure functions
ClientAtRest ==
  /\ page9 = NewPage9
  /\ calls = [c \in CallIds |-> IdleCall]
  /\ contexts = [x \in CtxIds |-> NoContext]

\* the kernel variables of the specifications that only apply pure functions
KernelAtRest ==
  /\ phase = "active"
  /\ otherCaches = {}
  /\ cleaning = {}
  /\ installBody = NoBody
  /\ currentCache = 0
  /\ cacheObjs = [o \in ObjIds |-> EmptyCache]
  /\ writers = [o \in ObjIds |-> NoWriters]
  /\ objCount = 0
  /\ reqs = [r \in ReqIds |-> IdleReq]
  /\ puts = {}
  /\ ctl = [m \in MsgIds |-> IdleMsg]
  /\ uncleared = {}
  /\ restarts = 0

NoProbe == [op |-> "none"]

(***************************************************************************)
(* The pattern specification: matchPattern on every pattern and pathname   *)
(* within the bounds.                                                      *)
(***************************************************************************)
Patterns == SeqsOf(PatChars, 1, MaxPatLen)

\* request pathnames within the bound
Pathnames == {s \in SeqsOf(PathChars, 1, MaxPathLen) : IsPathname(s)}

InitPattern == kernelConfig = NoConfig /\ probe = NoProbe /\ KernelAtRest /\ ClientAtRest

ApplyMatchPattern ==
  /\ probe.op = "none"
  /\ \E pattern \in Patterns, pathname \in Pathnames :
       probe' = [op |-> "matchPattern", pattern |-> pattern, pathname |-> pathname,
                 result |-> matchPattern(pathname, pattern)]
  /\ UNCHANGED <<kernelConfig, kernelVars, clientVars>>

NextPattern == ApplyMatchPattern

SpecPattern == InitPattern /\ [][NextPattern]_vars

(***************************************************************************)
(* The resolution specification: matchRoute, findMount and handleRequest   *)
(* on configurations built from a pool of routes and a pool of mounts.     *)
(***************************************************************************)
\* routes: an exact key, the wildcard, a dot, a repetition, and a key that does not
\* compile; a file with a placeholder, a relative file
RoutePool ==
  { [pattern |-> <<"/", "a">>,      file |-> <<"/", "d">>],
    [pattern |-> <<"/", "*">>,      file |-> <<"/", "{", "p", "}">>],
    [pattern |-> <<"/", ".", "a">>, file |-> <<"d">>],
    [pattern |-> <<"/", "a", "+">>, file |-> <<"/", "e">>],
    [pattern |-> <<"/", "+", "+">>, file |-> <<"/", "f">>] }

\* mounts: nested prefixes, two mounts of the same path, an empty path, the root
\* as a target
MountPool ==
  { [path |-> <<>>,              target |-> <<"/", "t">>],
    [path |-> <<"/">>,           target |-> <<"/", "t">>],
    [path |-> <<"/", "a">>,      target |-> <<"/", "t">>],
    [path |-> <<"/", "a">>,      target |-> <<"/">>],
    [path |-> <<"/", "a", "/">>, target |-> <<"/", "u">>] }

\* the pathnames requested in the resolution specification
ResolvePaths ==
  { <<"/">>, <<"/", "a">>, <<"/", "a", "a">>, <<"/", "a", "/">>,
    <<"/", "a", "/", "a">>, <<"/", ".", "a">>, <<"/", "b">> }

\* route tables: keys are distinct
RouteTables ==
  {t \in SeqsOf(RoutePool, 0, MaxRoutes) :
     \A i, j \in 1..Len(t) : i # j => t[i].pattern # t[j].pattern}

MountLists == SeqsOf(MountPool, 0, MaxMounts)

ResolveConfigs ==
  {MkConfig(r, m, "cache-first") : r \in RouteTables, m \in MountLists}
  \cup {[getDefaultConfig EXCEPT !.hasRoutes = FALSE],
        [getDefaultConfig EXCEPT !.hasMounts = FALSE]}

InitResolve ==
  kernelConfig \in ResolveConfigs /\ probe = NoProbe /\ KernelAtRest /\ ClientAtRest

ApplyMatchRoute ==
  /\ probe.op = "none"
  /\ \E pathname \in ResolvePaths :
       probe' = [op |-> "matchRoute", pathname |-> pathname,
                 result |-> matchRoute(kernelConfig, pathname)]
  /\ UNCHANGED <<kernelConfig, kernelVars, clientVars>>

ApplyFindMount ==
  /\ probe.op = "none"
  /\ \E pathname \in ResolvePaths :
       probe' = [op |-> "findMount", pathname |-> pathname,
                 result |-> findMount(kernelConfig, pathname)]
  /\ UNCHANGED <<kernelConfig, kernelVars, clientVars>>

ApplyHandleRequest ==
  /\ probe.op = "none"
  /\ \E method \in Methods, pathname \in ResolvePaths :
       probe' = [op |-> "handleRequest", request |-> Request(method, pathname),
                 result |-> handleRequest(kernelConfig, Request(method, pathname))]
  /\ UNCHANGED <<kernelConfig, kernelVars, clientVars>>

NextResolve == ApplyMatchRoute \/ ApplyFindMount \/ ApplyHandleRequest

SpecResolve == InitResolve /\ [][NextResolve]_vars

(***************************************************************************)
(* The kernel specification: the service worker's events.                  *)
(***************************************************************************)
\* the request completes with a response
Respond(rec, response, source) ==
  [rec EXCEPT !.pc = "done", !.response = response, !.source = source,
              !.since = rec.after \cap uncleared]

\* the request completes with handleRequest's promise rejected
Raise(rec) ==
  [rec EXCEPT !.pc = "done", !.raised = TRUE, !.since = rec.after \cap uncleared]

\* the Request handed to fetch() by the caching strategies: the event's own request
OwnFetch(rec) == [url |-> SameOrigin(rec.pathname), method |-> rec.method]

\* handleDefaultRequest, line 273, reading the strategy of the built-in configuration
handleDefaultRequestOfDefault(rec, cfg) ==
  LET strategy == getDefaultConfig.strategy
  IN IF strategy = "cache-first"
     THEN [rec EXCEPT !.strategy = "cache-first", !.pc = "cfOpen"]
     ELSE [rec EXCEPT !.strategy = strategy, !.pc = "plainFetch",
                      !.fetch = OwnFetch(rec), !.fetches = rec.fetches + 1]

\* handleDefaultRequest without the "|| 'cache-first'" of line 273
handleDefaultRequestWithoutDefault(rec, cfg) ==
  LET strategy == cfg.strategy
  IN IF strategy = "cache-first"
     THEN [rec EXCEPT !.strategy = "cache-first", !.pc = "cfOpen"]
     ELSE IF strategy = "stale-while-revalidate"
     THEN [rec EXCEPT !.strategy = "stale-while-revalidate", !.pc = "swrOpen"]
     ELSE IF strategy = "network-first"
     THEN [rec EXCEPT !.strategy = "network-first", !.pc = "nfFetch",
                      !.fetch = OwnFetch(rec), !.fetches = rec.fetches + 1]
     ELSE [rec EXCEPT !.strategy = strategy, !.pc = "plainFetch",
                      !.fetch = OwnFetch(rec), !.fetches = rec.fetches + 1]

\* handleDefaultRequest: the strategy is read from the configuration, with
\* 'cache-first' in the place of a value that is missing or falsy, and started.
\* cacheFirst and staleWhileRevalidate begin with "await caches.open(CACHE_NAME)",
\* networkFirst and the default case with fetch(request)
handleDefaultRequest(rec, cfg) ==
  LET strategy == IF cfg.strategy = NoStrategy THEN "cache-first" ELSE cfg.strategy
  IN IF strategy = "cache-first"
     THEN [rec EXCEPT !.strategy = "cache-first", !.pc = "cfOpen"]
     ELSE IF strategy = "stale-while-revalidate"
     THEN [rec EXCEPT !.strategy = "stale-while-revalidate", !.pc = "swrOpen"]
     ELSE IF strategy = "network-first"
     THEN [rec EXCEPT !.strategy = "network-first", !.pc = "nfFetch",
                      !.fetch = OwnFetch(rec), !.fetches = rec.fetches + 1]
     ELSE [rec EXCEPT !.strategy = strategy, !.pc = "plainFetch",
                      !.fetch = OwnFetch(rec), !.fetches = rec.fetches + 1]

\* Dispatch with the routed requests sent through a caching strategy
DispatchCachingRoutes(rec, cfg) ==
  LET plan == handleRequest(cfg, Request(rec.method, rec.pathname))
      base == [rec EXCEPT !.via = plan.via, !.config = cfg]
  IN IF plan.via = "raise" THEN Raise(base)
     ELSE IF plan.via \in {"default", "route"}
          THEN handleDefaultRequest(base, getDefaultConfig)
     ELSE IF plan.fetch = NoFetch
          THEN Respond(base, Response(plan.status, plan.body), "kernel")
     ELSE [base EXCEPT !.pc = "mountFetch",
                       !.fetch = plan.fetch, !.fetches = rec.fetches + 1]

\* handleRequest from line 145 on, up to the first suspension of the branch taken
Dispatch(rec, cfg) ==
  LET plan == handleRequest(cfg, Request(rec.method, rec.pathname))
      base == [rec EXCEPT !.via = plan.via, !.config = cfg]
  IN IF plan.via = "raise" THEN Raise(base)
     ELSE IF plan.via = "default" THEN handleDefaultRequest(base, cfg)
     ELSE IF plan.fetch = NoFetch
          THEN Respond(base, Response(plan.status, plan.body), "kernel")
     ELSE [base EXCEPT !.pc = IF plan.via = "route" THEN "routeFetch" ELSE "mountFetch",
                       !.fetch = plan.fetch, !.fetches = rec.fetches + 1]

\* cacheFirst, lines 294-296, with the lookup of line 292 ignored
cacheFirstAfterMatchIgnoringHit(rec, cached) ==
  [rec EXCEPT !.lookup = cached, !.pc = "cfFetch", !.fetch = OwnFetch(rec),
              !.fetches = rec.fetches + 1]

\* cacheFirst, lines 294-299, once cache.match has answered with cached
\* (NoResponse for undefined)
cacheFirstAfterMatch(rec, cached) ==
  IF cached # NoResponse
  THEN Respond([rec EXCEPT !.lookup = cached], cached, "cache")
  ELSE [rec EXCEPT !.lookup = cached, !.pc = "cfFetch", !.fetch = OwnFetch(rec),
                   !.fetches = rec.fetches + 1]

\* cacheFirst, lines 299-307, without the try/catch
cacheFirstAfterFetchUncaught(rec, outcome) ==
  IF outcome.kind = "fail"
  THEN Raise([rec EXCEPT !.net = "fail"])
  ELSE Respond([rec EXCEPT !.net = outcome.kind, !.fetched = outcome.response],
               outcome.response, "network")

\* cacheFirst, lines 299-307, once fetch(request) has settled
cacheFirstAfterFetch(rec, outcome) ==
  IF outcome.kind = "fail"
  THEN Respond([rec EXCEPT !.net = "fail"], Response(503, "Network error"), "kernel")
  ELSE Respond([rec EXCEPT !.net = outcome.kind, !.fetched = outcome.response],
               outcome.response, "network")

\* networkFirst falling back to the cache on a response that is not ok as well
networkFirstAfterFetchFallingBack(rec, outcome) ==
  IF outcome.kind = "ok"
  THEN [rec EXCEPT !.net = "ok", !.fetched = outcome.response, !.pc = "nfOpenPut"]
  ELSE [rec EXCEPT !.net = outcome.kind, !.fetched = outcome.response,
                   !.pc = "nfOpenCatch"]

\* networkFirst, lines 315-322, once fetch(request) has settled: an ok response
\* waits for caches.open (line 317), a response that is not ok is returned, a
\* rejection enters the catch block, which begins with caches.open (line 322)
networkFirstAfterFetch(rec, outcome) ==
  IF outcome.kind = "ok"
  THEN [rec EXCEPT !.net = "ok", !.fetched = outcome.response, !.pc = "nfOpenPut"]
  ELSE IF outcome.kind = "notok"
  THEN Respond([rec EXCEPT !.net = "notok", !.fetched = outcome.response],
               outcome.response, "network")
  ELSE [rec EXCEPT !.net = "fail", !.pc = "nfOpenCatch"]

\* networkFirst, lines 324-327, with the lookup of line 323 ignored
networkFirstAfterMatchIgnoringCache(rec, cached) ==
  Respond([rec EXCEPT !.lookup = cached],
          Response(503, "Network error and no cache"), "kernel")

\* networkFirst, lines 324-327, answering a miss with the body cacheFirst uses
networkFirstAfterMatchSameBody(rec, cached) ==
  IF cached # NoResponse
  THEN Respond([rec EXCEPT !.lookup = cached], cached, "cache")
  ELSE Respond([rec EXCEPT !.lookup = cached], Response(503, "Network error"), "kernel")

\* networkFirst, lines 324-327, once cache.match has answered in the catch block
networkFirstAfterMatch(rec, cached) ==
  IF cached # NoResponse
  THEN Respond([rec EXCEPT !.lookup = cached], cached, "cache")
  ELSE Respond([rec EXCEPT !.lookup = cached],
               Response(503, "Network error and no cache"), "kernel")

\* staleWhileRevalidate, lines 338-345, once cache.match has answered: the fetch is
\* issued in either case; a cached response is returned at once, otherwise the
\* promise of the fetch is what the request returns
staleWhileRevalidateAfterMatch(rec, cached) ==
  LET base == [rec EXCEPT !.lookup = cached, !.fetch = OwnFetch(rec),
                          !.fetches = rec.fetches + 1, !.bg = "pending"]
  IN IF cached # NoResponse
     THEN Respond(base, cached, "cache")
     ELSE [base EXCEPT !.pc = "swrFetch"]

\* staleWhileRevalidate, lines 338-343, once fetch(request) has settled.  The
\* promise has no rejection handler of its own: a rejection reaches the caller when
\* the request returned the promise, and nobody when it returned the cached response
staleWhileRevalidateAfterFetch(rec, outcome) ==
  LET base == [rec EXCEPT !.net = outcome.kind, !.fetched = outcome.response,
                          !.bg = "settled"]
  IN IF rec.pc = "swrFetch"
     THEN IF outcome.kind = "fail"
          THEN Raise(base)
          ELSE Respond(base, outcome.response, "network")
     ELSE IF outcome.kind = "fail"
          THEN [base EXCEPT !.unhandled = TRUE]
          ELSE base

\* cache.match(request) on a Cache object: only a GET request can match
CacheMatch(obj, rec) ==
  IF rec.method = "GET" THEN cacheObjs[obj][rec.pathname] ELSE NoResponse

\* the cache.put calls of lines 301, 318 and 340 without the test of response.ok
PutsStartedAnyStatus(rec, outcome) ==
  IF outcome.kind # "fail" /\ rec.method = "GET"
  THEN {[obj |-> rec.cache, key |-> rec.pathname, response |-> outcome.response,
         by |-> rec.id]}
  ELSE {}

\* the cache.put calls storing every response under one key
PutsStartedOneKey(rec, outcome) ==
  IF outcome.kind = "ok" /\ rec.method = "GET"
  THEN {[obj |-> rec.cache, key |-> XPath, response |-> outcome.response,
         by |-> rec.id]}
  ELSE {}

\* the cache.put calls the strategies start (lines 301, 318, 340): none unless the
\* response is ok; a put of a request that is not a GET is rejected at once and
\* stores nothing
PutsStarted(rec, outcome) ==
  IF outcome.kind = "ok" /\ rec.method = "GET"
  THEN {[obj |-> rec.cache, key |-> rec.pathname, response |-> outcome.response,
         by |-> rec.id]}
  ELSE {}

\* the events the environment has sent so far
EventsSoFar ==
  Cardinality({r \in ReqIds : reqs[r].pc # "idle"})
  + Cardinality({m \in MsgIds : ctl[m].pc # "idle"}) + restarts

\* the record of request r becomes rec
SetReq(r, rec) ==
  /\ reqs' = [reqs EXCEPT ![r] = rec]
  /\ uncleared' = IF rec.pc = "done" /\ reqs[r].pc # "done"
                  THEN uncleared \cup {r} ELSE uncleared

\* caches.keys(): the names CacheStorage holds
CacheNames == otherCaches \cup (IF currentCache # 0 THEN {CACHE_NAME} ELSE {})

\* CacheStorage holds the names in names, each with the Cache object it had
SetCacheNames(names) ==
  /\ otherCaches' = names \ {CACHE_NAME}
  /\ currentCache' = IF CACHE_NAME \in names THEN currentCache ELSE 0

\* caches.delete(name): the names CacheStorage holds afterwards
cachesDelete(name, names) == names \ {name}

\* caches.open(CACHE_NAME): the Cache object of that name, an empty one being
\* created when CacheStorage holds none
OpenedCache == IF currentCache = 0 THEN objCount + 1 ELSE currentCache

cachesOpen ==
  IF currentCache = 0
  THEN /\ objCount' = objCount + 1
       /\ currentCache' = objCount + 1
       /\ cacheObjs' = [cacheObjs EXCEPT ![objCount + 1] = EmptyCache]
       /\ writers' = [writers EXCEPT ![objCount + 1] = NoWriters]
  ELSE UNCHANGED <<objCount, currentCache, cacheObjs, writers>>

\* what "await fetch(CONFIG_PATH)" may settle with
ConfigFetchKinds == {"ok", "notok", "fail"}

\* what response.json() may give, the content of the response: a configuration,
\* or a SyntaxError (malformed)
ConfigParses == {[ok |-> TRUE, config |-> c] : c \in KernelConfigs}
                \cup {[ok |-> FALSE, config |-> getDefaultConfig]}

\* loadKernelConfig, lines 101-105, ignoring the content
ParsedConfigAlwaysDefault(parse) == getDefaultConfig

\* kernelConfig after lines 101-105
ParsedConfig(parse) == IF parse.ok THEN parse.config ELSE getDefaultConfig

Init ==
  /\ kernelConfig = NoConfig
  /\ probe = NoProbe
  /\ phase = "new"
  /\ otherCaches = {OLD_CACHE, OLDER_CACHE, APP_CACHE, NEAR_CACHE}
  /\ cleaning = {}
  /\ installBody = NoBody
  /\ ClientAtRest
  /\ currentCache \in {0, 1}
  /\ objCount = currentCache
  /\ cacheObjs \in {[o \in ObjIds |-> EmptyCache],
                    [o \in ObjIds |-> IF o = 1 /\ currentCache = 1
                                      THEN [EmptyCache EXCEPT ![XPath] = Response(200, "v1")]
                                      ELSE EmptyCache]}
  /\ writers = [o \in ObjIds |-> NoWriters]
  /\ reqs = [r \in ReqIds |-> IdleReq]
  /\ puts = {}
  /\ ctl = [m \in MsgIds |-> IdleMsg]
  /\ uncleared = {}
  /\ restarts = 0

\* install listener: loadKernelConfig() starts with "await fetch(CONFIG_PATH)"
InstallEvent ==
  /\ phase = "new"
  /\ phase' = "installFetch"
  /\ UNCHANGED <<kernelConfig, otherCaches, cleaning, currentCache, cacheObjs, writers,
                 objCount, reqs, puts, ctl, uncleared, restarts, installBody, probe,
                 clientVars>>

\* loadKernelConfig, lines 94-99 and 103-106, for the install event
InstallConfigFetched ==
  /\ phase = "installFetch"
  /\ \E kind \in ConfigFetchKinds :
       IF kind = "ok"
       THEN /\ phase' = "installJson"
            /\ installBody' \in ConfigParses
            /\ UNCHANGED kernelConfig
       ELSE /\ phase' = "installed"
            /\ kernelConfig' = getDefaultConfig
            /\ UNCHANGED installBody
  /\ UNCHANGED <<otherCaches, cleaning, currentCache, cacheObjs, writers, objCount, reqs,
                 puts, ctl, uncleared, restarts, probe, clientVars>>

\* loadKernelConfig, lines 101-106, for the install event
InstallConfigParsed ==
  /\ phase = "installJson"
  /\ kernelConfig' = ParsedConfig(installBody)
  /\ installBody' = NoBody
  /\ phase' = "installed"
  /\ UNCHANGED <<otherCaches, cleaning, currentCache, cacheObjs, writers, objCount, reqs,
                 puts, ctl, uncleared, restarts, probe, clientVars>>

\* name.startsWith('page9-kernel-')
KERNEL_PREFIX == <<"page9", "-", "kernel", "-">>
HasKernelPrefix(name) == StartsWith(name, KERNEL_PREFIX)

\* cleanOldCaches, line 355, keeping the cache of the current version in the list
cleanOldCachesFilterAnyVersion(cacheNames) ==
  {name \in cacheNames : HasKernelPrefix(name)}

\* cleanOldCaches, line 355: the names to delete
cleanOldCachesFilter(cacheNames) ==
  {name \in cacheNames : HasKernelPrefix(name) /\ name # CACHE_NAME}

\* activate listener: cleanOldCaches() starts with "await caches.keys()"
ActivateEvent ==
  /\ phase = "installed"
  /\ phase' = "cleanKeys"
  /\ UNCHANGED <<kernelConfig, otherCaches, cleaning, currentCache, cacheObjs, writers,
                 objCount, reqs, puts, ctl, uncleared, restarts, installBody, probe,
                 clientVars>>

\* cleanOldCaches, lines 352-357: caches.keys() answers and caches.delete is called
\* for every name that passes the filter
CleanKeysListed ==
  /\ phase = "cleanKeys"
  /\ cleaning' = cleanOldCachesFilter(CacheNames)
  /\ phase' = "cleaning"
  /\ UNCHANGED <<kernelConfig, otherCaches, currentCache, cacheObjs, writers, objCount,
                 reqs, puts, ctl, uncleared, restarts, installBody, probe, clientVars>>

\* one of the caches.delete(name) calls of line 356 takes effect
CleanDeleted ==
  /\ phase = "cleaning"
  /\ \E name \in cleaning :
       /\ SetCacheNames(cachesDelete(name, CacheNames))
       /\ cleaning' = cleaning \ {name}
  /\ UNCHANGED <<kernelConfig, phase, cacheObjs, writers, objCount, reqs, puts, ctl,
                 uncleared, restarts, installBody, probe, clientVars>>

\* Promise.all resolves once every delete has; then clients.claim() and the worker
\* is active
CleanDone ==
  /\ phase = "cleaning"
  /\ cleaning = {}
  /\ phase' = "active"
  /\ UNCHANGED <<kernelConfig, otherCaches, cleaning, currentCache, cacheObjs, writers,
                 objCount, reqs, puts, ctl, uncleared, restarts, installBody, probe,
                 clientVars>>

\* fetch listener and handleRequest up to its first suspension: the load of the
\* configuration when there is none, else the branch's first await
FetchEvent(r) ==
  /\ phase = "active"
  /\ EventsSoFar < MaxEvents
  /\ reqs[r].pc = "idle"
  /\ \A i \in ReqIds : i < r => reqs[i].pc # "idle"
  /\ \E q \in KernelRequests :
       LET rec == [IdleReq EXCEPT !.id = r, !.method = q.method, !.pathname = q.pathname,
                                  !.after = {i \in ReqIds : reqs[i].pc = "done"},
                                  !.afterBg = {i \in ReqIds : reqs[i].bg = "settled"}]
       IN IF kernelConfig.loaded
          THEN SetReq(r, Dispatch(rec, kernelConfig))
          ELSE SetReq(r, [rec EXCEPT !.pc = "loadFetch"])
  /\ UNCHANGED <<kernelConfig, phase, otherCaches, cleaning, currentCache, cacheObjs,
                 writers, objCount, puts, ctl, restarts, installBody, probe, clientVars>>

\* loadKernelConfig, lines 94-99 and 103-106, awaited by handleRequest (line 141),
\* which goes on with the configuration just set
ReqConfigFetched(r) ==
  /\ reqs[r].pc = "loadFetch"
  /\ \E kind \in ConfigFetchKinds :
       IF kind = "ok"
       THEN /\ \E body \in ConfigParses :
                 SetReq(r, [reqs[r] EXCEPT !.pc = "loadJson", !.body = body])
            /\ UNCHANGED kernelConfig
       ELSE /\ kernelConfig' = getDefaultConfig
            /\ SetReq(r, Dispatch(reqs[r], getDefaultConfig))
  /\ UNCHANGED <<phase, otherCaches, cleaning, currentCache, cacheObjs, writers, objCount,
                 puts, ctl, restarts, installBody, probe, clientVars>>

\* loadKernelConfig, lines 101-106, awaited by handleRequest (line 141)
ReqConfigParsed(r) ==
  /\ reqs[r].pc = "loadJson"
  /\ kernelConfig' = ParsedConfig(reqs[r].body)
  /\ SetReq(r, Dispatch([reqs[r] EXCEPT !.body = NoBody], ParsedConfig(reqs[r].body)))
  /\ UNCHANGED <<phase, otherCaches, cleaning, currentCache, cacheObjs, writers, objCount,
                 puts, ctl, restarts, installBody, probe, clientVars>>

\* handleRouteRequest after "await fetch(fileRequest)": a rejection is caught
RouteFetchDone(r) ==
  /\ reqs[r].pc = "routeFetch"
  /\ \E outcome \in NetOutcomes :
       SetReq(r, IF outcome.kind = "fail"
                 THEN Respond([reqs[r] EXCEPT !.net = "fail"],
                              Response(404, "Route not found"), "kernel")
                 ELSE Respond([reqs[r] EXCEPT !.net = outcome.kind,
                                              !.fetched = outcome.response],
                              outcome.response, "network"))
  /\ UNCHANGED <<kernelConfig, phase, otherCaches, cleaning, currentCache, cacheObjs,
                 writers, objCount, puts, ctl, restarts, installBody, probe, clientVars>>

\* handleMountRequest returns the fetch promise without awaiting it inside the
\* try: a rejection of the fetch is the rejection of handleRequest
MountFetchDone(r) ==
  /\ reqs[r].pc = "mountFetch"
  /\ \E outcome \in NetOutcomes :
       SetReq(r, IF outcome.kind = "fail"
                 THEN Raise([reqs[r] EXCEPT !.net = "fail"])
                 ELSE Respond([reqs[r] EXCEPT !.net = outcome.kind,
                                              !.fetched = outcome.response],
                              outcome.response, "network"))
  /\ UNCHANGED <<kernelConfig, phase, otherCaches, cleaning, currentCache, cacheObjs,
                 writers, objCount, puts, ctl, restarts, installBody, probe, clientVars>>

\* handleDefaultRequest, line 283: the promise of fetch(request) is what the
\* request returns, a rejection included
PlainFetchDone(r) ==
  /\ reqs[r].pc = "plainFetch"
  /\ \E outcome \in NetOutcomes :
       SetReq(r, IF outcome.kind = "fail"
                 THEN Raise([reqs[r] EXCEPT !.net = "fail"])
                 ELSE Respond([reqs[r] EXCEPT !.net = outcome.kind,
                                              !.fetched = outcome.response],
                              outcome.response, "network"))
  /\ UNCHANGED <<kernelConfig, phase, otherCaches, cleaning, currentCache, cacheObjs,
                 writers, objCount, puts, ctl, restarts, installBody, probe, clientVars>>

\* cacheFirst, line 291: caches.open(CACHE_NAME) answers
CacheFirstOpen(r) ==
  /\ reqs[r].pc = "cfOpen"
  /\ cachesOpen
  /\ SetReq(r, [reqs[r] EXCEPT !.pc = "cfMatch", !.cache = OpenedCache])
  /\ UNCHANGED <<kernelConfig, phase, otherCaches, cleaning, puts, ctl, restarts,
                 installBody, probe, clientVars>>

\* cacheFirst, lines 292-299: cache.match(request) answers
CacheFirstMatch(r) ==
  /\ reqs[r].pc = "cfMatch"
  /\ SetReq(r, cacheFirstAfterMatch(reqs[r], CacheMatch(reqs[r].cache, reqs[r])))
  /\ UNCHANGED <<kernelConfig, phase, otherCaches, cleaning, currentCache, cacheObjs,
                 writers, objCount, puts, ctl, restarts, installBody, probe, clientVars>>

\* cacheFirst, lines 299-307: fetch(request) settles; cache.put is started and not
\* awaited
CacheFirstFetchDone(r) ==
  /\ reqs[r].pc = "cfFetch"
  /\ \E outcome \in NetOutcomes :
       /\ SetReq(r, cacheFirstAfterFetch(reqs[r], outcome))
       /\ puts' = puts \cup PutsStarted(reqs[r], outcome)
  /\ UNCHANGED <<kernelConfig, phase, otherCaches, cleaning, currentCache, cacheObjs,
                 writers, objCount, ctl, restarts, installBody, probe, clientVars>>

\* networkFirst, lines 315-322: fetch(request) settles
NetworkFirstFetchDone(r) ==
  /\ reqs[r].pc = "nfFetch"
  /\ \E outcome \in NetOutcomes : SetReq(r, networkFirstAfterFetch(reqs[r], outcome))
  /\ UNCHANGED <<kernelConfig, phase, otherCaches, cleaning, currentCache, cacheObjs,
                 writers, objCount, puts, ctl, restarts, installBody, probe, clientVars>>

\* networkFirst, lines 317-320: caches.open answers; cache.put is started and not
\* awaited, and the response is returned
NetworkFirstOpenPut(r) ==
  /\ reqs[r].pc = "nfOpenPut"
  /\ cachesOpen
  /\ LET rec == [reqs[r] EXCEPT !.cache = OpenedCache]
     IN /\ SetReq(r, Respond(rec, rec.fetched, "network"))
        /\ puts' = puts \cup PutsStarted(rec, [kind |-> "ok", response |-> rec.fetched])
  /\ UNCHANGED <<kernelConfig, phase, otherCaches, cleaning, ctl, restarts, installBody,
                 probe, clientVars>>

\* networkFirst, line 322: caches.open answers in the catch block
NetworkFirstOpenCatch(r) ==
  /\ reqs[r].pc = "nfOpenCatch"
  /\ cachesOpen
  /\ SetReq(r, [reqs[r] EXCEPT !.pc = "nfMatch", !.cache = OpenedCache])
  /\ UNCHANGED <<kernelConfig, phase, otherCaches, cleaning, puts, ctl, restarts,
                 installBody, probe, clientVars>>

\* networkFirst, lines 323-327: cache.match(request) answers in the catch block
NetworkFirstMatch(r) ==
  /\ reqs[r].pc = "nfMatch"
  /\ SetReq(r, networkFirstAfterMatch(reqs[r], CacheMatch(reqs[r].cache, reqs[r])))
  /\ UNCHANGED <<kernelConfig, phase, otherCaches, cleaning, currentCache, cacheObjs,
                 writers, objCount, puts, ctl, restarts, installBody, probe, clientVars>>

\* staleWhileRevalidate, line 335: caches.open(CACHE_NAME) answers
StaleWhileRevalidateOpen(r) ==
  /\ reqs[r].pc = "swrOpen"
  /\ cachesOpen
  /\ SetReq(r, [reqs[r] EXCEPT !.pc = "swrMatch", !.cache = OpenedCache])
  /\ UNCHANGED <<kernelConfig, phase, otherCaches, cleaning, puts, ctl, restarts,
                 installBody, probe, clientVars>>

\* staleWhileRevalidate, lines 336-345: cache.match(request) answers, the fetch is
\* issued
StaleWhileRevalidateMatch(r) ==
  /\ reqs[r].pc = "swrMatch"
  /\ SetReq(r, staleWhileRevalidateAfterMatch(reqs[r],
                                              CacheMatch(reqs[r].cache, reqs[r])))
  /\ UNCHANGED <<kernelConfig, phase, otherCaches, cleaning, currentCache, cacheObjs,
                 writers, objCount, puts, ctl, restarts, installBody, probe, clientVars>>

\* staleWhileRevalidate, lines 338-343: the fetch settles, whether the request has
\* been answered or waits for it; cache.put is started and not awaited
StaleWhileRevalidateFetchDone(r) ==
  /\ reqs[r].bg = "pending"
  /\ \E outcome \in NetOutcomes :
       /\ SetReq(r, staleWhileRevalidateAfterFetch(reqs[r], outcome))
       /\ puts' = puts \cup PutsStarted(reqs[r], outcome)
  /\ UNCHANGED <<kernelConfig, phase, otherCaches, cleaning, currentCache, cacheObjs,
                 writers, objCount, ctl, restarts, installBody, probe, clientVars>>

\* a cache.put completes: the entry is written into the Cache object it was called on
PutCommit ==
  /\ \E p \in puts :
       /\ cacheObjs' = [cacheObjs EXCEPT ![p.obj][p.key] = p.response]
       /\ writers' = [writers EXCEPT ![p.obj][p.key] = p.by]
       /\ puts' = puts \ {p}
  /\ UNCHANGED <<kernelConfig, phase, otherCaches, cleaning, currentCache, objCount, reqs,
                 ctl, uncleared, restarts, installBody, probe, clientVars>>

\* message listener, lines 65-69, with the default configuration in place of null
KernelStatusReplyDefaulting(cfg) ==
  [kind |-> "status", version |-> KERNEL_VERSION,
   config |-> IF cfg.loaded THEN cfg ELSE getDefaultConfig, active |-> TRUE]

\* message listener, lines 65-69: the message posted on the port
KernelStatusReply(cfg) ==
  [kind |-> "status", version |-> KERNEL_VERSION, config |-> cfg, active |-> TRUE]

\* message listener, KERNEL_STATUS: the reply is posted before the listener returns
KernelStatusReceived(m) ==
  /\ phase = "active"
  /\ EventsSoFar < MaxEvents
  /\ ctl[m].pc = "idle"
  /\ \A i \in MsgIds : i < m => ctl[i].pc # "idle"
  /\ ctl' = [ctl EXCEPT ![m] = [IdleMsg EXCEPT !.type = "KERNEL_STATUS", !.pc = "replied",
                                               !.reply = KernelStatusReply(kernelConfig),
                                               !.replies = 1]]
  /\ UNCHANGED <<kernelConfig, phase, otherCaches, cleaning, currentCache, cacheObjs,
                 writers, objCount, reqs, puts, uncleared, restarts, installBody, probe,
                 clientVars>>

\* clearCache, line 364, deleting every cache
clearCacheEverything(names) == {}

\* clearCache, line 364: the names CacheStorage holds after caches.delete(CACHE_NAME)
clearCache(names) == cachesDelete(CACHE_NAME, names)

\* message listener, CLEAR_CACHE: clearCache() calls caches.delete(CACHE_NAME)
ClearCacheReceived(m) ==
  /\ phase = "active"
  /\ EventsSoFar < MaxEvents
  /\ ctl[m].pc = "idle"
  /\ \A i \in MsgIds : i < m => ctl[i].pc # "idle"
  /\ ctl' = [ctl EXCEPT ![m] = [IdleMsg EXCEPT !.type = "CLEAR_CACHE", !.pc = "deleting",
                                               !.existed = currentCache # 0]]
  /\ uncleared' = {}
  /\ UNCHANGED <<kernelConfig, phase, otherCaches, cleaning, currentCache, cacheObjs,
                 writers, objCount, reqs, puts, restarts, installBody, probe, clientVars>>

\* caches.delete(CACHE_NAME) takes effect: CacheStorage forgets the name; the Cache
\* object lives on for those who hold it
ClearCacheDeleted(m) ==
  /\ ctl[m].pc = "deleting"
  /\ SetCacheNames(clearCache(CacheNames))
  /\ ctl' = [ctl EXCEPT ![m].pc = "deleted"]
  /\ uncleared' = {}
  /\ UNCHANGED <<kernelConfig, phase, cleaning, cacheObjs, writers, objCount, reqs, puts,
                 restarts, installBody, probe, clientVars>>

\* the promise of clearCache() resolves: {success: true} is posted on the port
ClearCacheReplied(m) ==
  /\ ctl[m].pc = "deleted"
  /\ ctl' = [ctl EXCEPT ![m].pc = "replied", ![m].reply = SuccessReply,
                        ![m].replies = ctl[m].replies + 1,
                        ![m].entriesAtReply =
                          IF currentCache = 0 THEN 0
                          ELSE Cardinality({k \in CacheKeys :
                                              cacheObjs[currentCache][k] # NoResponse})]
  /\ UNCHANGED <<kernelConfig, phase, otherCaches, cleaning, currentCache, cacheObjs,
                 writers, objCount, reqs, puts, uncleared, restarts, installBody, probe,
                 clientVars>>

\* message listener, RELOAD_CONFIG, answering before the load
ReloadConfigStartReplying(msg) ==
  [msg EXCEPT !.type = "RELOAD_CONFIG", !.pc = "reloadFetch", !.reply = SuccessReply,
              !.replies = msg.replies + 1]

\* message listener, RELOAD_CONFIG, line 73: loadKernelConfig() starts with
\* "await fetch(CONFIG_PATH)"; nothing is posted yet
ReloadConfigStart(msg) == [msg EXCEPT !.type = "RELOAD_CONFIG", !.pc = "reloadFetch"]

\* the callback of line 74 posting nothing
ReloadConfigReplySilent(msg) == [msg EXCEPT !.pc = "replied", !.body = NoBody]

\* line 74, run when the promise of loadKernelConfig() has resolved
ReloadConfigReply(msg) ==
  [msg EXCEPT !.pc = "replied", !.reply = SuccessReply, !.replies = msg.replies + 1,
              !.body = NoBody]

\* message listener, RELOAD_CONFIG
ReloadConfigReceived(m) ==
  /\ phase = "active"
  /\ EventsSoFar < MaxEvents
  /\ ctl[m].pc = "idle"
  /\ \A i \in MsgIds : i < m => ctl[i].pc # "idle"
  /\ ctl' = [ctl EXCEPT ![m] = ReloadConfigStart(ctl[m])]
  /\ UNCHANGED <<kernelConfig, phase, otherCaches, cleaning, currentCache, cacheObjs,
                 writers, objCount, reqs, puts, uncleared, restarts, installBody, probe,
                 clientVars>>

\* loadKernelConfig, lines 94-99 and 103-106, for RELOAD_CONFIG: when the load ends
\* here, the callback of line 74 runs before any other event is handled
ReloadConfigFetched(m) ==
  /\ ctl[m].pc = "reloadFetch"
  /\ \E kind \in ConfigFetchKinds :
       IF kind = "ok"
       THEN /\ \E body \in ConfigParses :
                 ctl' = [ctl EXCEPT ![m].pc = "reloadJson", ![m].body = body]
            /\ UNCHANGED kernelConfig
       ELSE /\ kernelConfig' = getDefaultConfig
            /\ ctl' = [ctl EXCEPT ![m] = ReloadConfigReply(ctl[m])]
  /\ UNCHANGED <<phase, otherCaches, cleaning, currentCache, cacheObjs, writers, objCount,
                 reqs, puts, uncleared, restarts, installBody, probe, clientVars>>

\* loadKernelConfig, lines 101-106, for RELOAD_CONFIG, then the callback of line 74
ReloadConfigParsed(m) ==
  /\ ctl[m].pc = "reloadJson"
  /\ kernelConfig' = ParsedConfig(ctl[m].body)
  /\ ctl' = [ctl EXCEPT ![m] = ReloadConfigReply(ctl[m])]
  /\ UNCHANGED <<phase, otherCaches, cleaning, currentCache, cacheObjs, writers, objCount,
                 reqs, puts, uncleared, restarts, installBody, probe, clientVars>>

\* the types of control messages the switch of lines 63-86 has no case for
OtherTypes == {"PING"}

\* message listener, default case, answering with an error
UnknownMessageRefused(msg, type) ==
  [msg EXCEPT !.type = type, !.pc = "ignored", !.reply = [kind |-> "error"],
              !.replies = msg.replies + 1]

\* message listener, lines 84-85: the type is logged
UnknownMessage(msg, type) == [msg EXCEPT !.type = type, !.pc = "ignored"]

\* message listener, a message of a type without a case
UnknownMessageReceived(m) ==
  /\ phase = "active"
  /\ EventsSoFar < MaxEvents
  /\ ctl[m].pc = "idle"
  /\ \A i \in MsgIds : i < m => ctl[i].pc # "idle"
  /\ \E type \in OtherTypes : ctl' = [ctl EXCEPT ![m] = UnknownMessage(ctl[m], type)]
  /\ UNCHANGED <<kernelConfig, phase, otherCaches, cleaning, currentCache, cacheObjs,
                 writers, objCount, reqs, puts, uncleared, restarts, installBody, probe,
                 clientVars>>

\* the browser stops the idle worker; the next event starts it again, with the
\* script's globals as new (kernelConfig = null, line 15)
Restart ==
  /\ phase = "active"
  /\ EventsSoFar < MaxEvents
  /\ kernelConfig.loaded
  /\ \A r \in ReqIds : reqs[r].pc \in {"idle", "done"} /\ reqs[r].bg # "pending"
  /\ \A m \in MsgIds : ctl[m].pc \in {"idle", "replied", "ignored"}
  /\ kernelConfig' = NoConfig
  /\ restarts' = restarts + 1
  /\ UNCHANGED <<phase, otherCaches, cleaning, currentCache, cacheObjs, writers, objCount,
                 reqs, puts, ctl, uncleared, installBody, probe, clientVars>>

Next ==
  \/ InstallEvent
  \/ InstallConfigFetched
  \/ InstallConfigParsed
  \/ ActivateEvent
  \/ CleanKeysListed
  \/ CleanDeleted
  \/ CleanDone
  \/ \E r \in ReqIds : FetchEvent(r)
  \/ \E r \in ReqIds : ReqConfigFetched(r)
  \/ \E r \in ReqIds : ReqConfigParsed(r)
  \/ \E r \in ReqIds : RouteFetchDone(r)
  \/ \E r \in ReqIds : MountFetchDone(r)
  \/ \E r \in ReqIds : PlainFetchDone(r)
  \/ \E r \in ReqIds : CacheFirstOpen(r)
  \/ \E r \in ReqIds : CacheFirstMatch(r)
  \/ \E r \in ReqIds : CacheFirstFetchDone(r)
  \/ \E r \in ReqIds : NetworkFirstFetchDone(r)
  \/ \E r \in ReqIds : NetworkFirstOpenPut(r)
  \/ \E r \in ReqIds : NetworkFirstOpenCatch(r)
  \/ \E r \in ReqIds : NetworkFirstMatch(r)
  \/ \E r \in ReqIds : StaleWhileRevalidateOpen(r)
  \/ \E r \in ReqIds : StaleWhileRevalidateMatch(r)
  \/ \E r \in ReqIds : StaleWhileRevalidateFetchDone(r)
  \/ PutCommit
  \/ \E m \in MsgIds : KernelStatusReceived(m)
  \/ \E m \in MsgIds : ClearCacheReceived(m)
  \/ \E m \in MsgIds : ClearCacheDeleted(m)
  \/ \E m \in MsgIds : ClearCacheReplied(m)
  \/ \E m \in MsgIds : ReloadConfigReceived(m)
  \/ \E m \in MsgIds : ReloadConfigFetched(m)
  \/ \E m \in MsgIds : ReloadConfigParsed(m)
  \/ \E m \in MsgIds : UnknownMessageReceived(m)
  \/ Restart

Spec == Init /\ [][Next]_vars

(***************************************************************************)
(* Properties of resolution.                                               *)
(***************************************************************************)
Min(S) == CHOOSE x \in S : \A y \in S : x <= y

\* the pattern with every * replaced by some character sequence equals the path
RECURSIVE GlobAccepts(_, _)
GlobAccepts(pattern, path) ==
  IF pattern = <<>> THEN path = <<>>
  ELSE IF Head(pattern) = "*"
       THEN \E k \in 0..Len(path) : GlobAccepts(Tail(pattern), Substring(path, k))
  ELSE path # <<>> /\ Head(path) = Head(pattern) /\ GlobAccepts(Tail(pattern), Tail(path))

\* the places of the route patterns the matcher accepts the pathname with
Accepting(cfg, pathname) ==
  {i \in 1..Len(cfg.routes) : matchPattern(pathname, cfg.routes[i].pattern) = "yes"}

\* the places of the mounts whose path is a prefix of the pathname
PrefixMounts(cfg, pathname) ==
  {i \in 1..Len(cfg.mounts) : StartsWith(pathname, cfg.mounts[i].path)}

\* those of them whose path is not the empty string
NonEmptyPrefixMounts(cfg, pathname) ==
  {i \in PrefixMounts(cfg, pathname) : cfg.mounts[i].path # <<>>}

\* the members of S with the longest mount path
Longest(cfg, S) ==
  {i \in S : \A j \in S : Len(cfg.mounts[j].path) <= Len(cfg.mounts[i].path)}

\* C1 (as claimed): handleRequest resolves in strict precedence: the route whose
\* key equals the path; otherwise the first route whose pattern accepts it;
\* otherwise, only when no route matches, a mount; otherwise the default strategy.
C1_Precedence ==
  probe.op = "handleRequest" =>
    LET path  == probe.request.pathname
        exact == ExactRoute(kernelConfig.routes, path)
        acc   == Accepting(kernelConfig, path)
        res   == probe.result
    IN /\ exact # 0 => res.via = "route" /\ res.index = exact
       /\ exact = 0 /\ acc # {} => res.via = "route" /\ res.index = Min(acc)
       /\ exact = 0 /\ acc = {} /\ NonEmptyPrefixMounts(kernelConfig, path) # {}
            => res.via = "mount"
       /\ exact = 0 /\ acc = {} /\ NonEmptyPrefixMounts(kernelConfig, path) = {}
            => res.via = "default"

\* C2 (as claimed): findMount returns a mount whose path is a prefix of the request
\* path and is the longest such, and returns no mount only when no mount's path is
\* a prefix of the request path.
C2_LongestPrefixAnyPath ==
  probe.op = "findMount" =>
    LET Q == PrefixMounts(kernelConfig, probe.pathname)
    IN /\ probe.result # 0 => probe.result \in Longest(kernelConfig, Q)
       /\ probe.result = 0 => Q = {}

\* C2 (amended): findMount returns a mount whose non-empty path is a prefix of the
\* request path and is the longest such, and returns no mount only when no mount
\* with a non-empty path is a prefix of the request path.
C2_LongestPrefix ==
  probe.op = "findMount" =>
    LET Q == NonEmptyPrefixMounts(kernelConfig, probe.pathname)
    IN /\ probe.result # 0 => probe.result \in Longest(kernelConfig, Q)
       /\ probe.result = 0 => Q = {}

\* C2 witness: the longest matching mount was found although a shorter matching
\* mount is declared after it
C2_Witness ==
  /\ probe.op = "findMount"
  /\ probe.result # 0
  /\ \E j \in NonEmptyPrefixMounts(kernelConfig, probe.pathname) :
       /\ j > probe.result
       /\ Len(kernelConfig.mounts[j].path) < Len(kernelConfig.mounts[probe.result].path)

\* C3 (as claimed): when two or more mounts share the maximal matching prefix
\* length, findMount selects the first-declared of them.
C3_FirstDeclaredAnyPath ==
  probe.op = "findMount" =>
    LET T == Longest(kernelConfig, PrefixMounts(kernelConfig, probe.pathname))
    IN Cardinality(T) >= 2 => probe.result = Min(T)

\* C3 (amended): when two or more mounts with a non-empty path share the maximal
\* matching prefix length, findMount selects the first-declared of them.
C3_FirstDeclared ==
  probe.op = "findMount" =>
    LET T == Longest(kernelConfig, NonEmptyPrefixMounts(kernelConfig, probe.pathname))
    IN Cardinality(T) >= 2 => probe.result = Min(T)

\* C3 witness: two mounts of the same path and different targets both match, and
\* the first-declared one was found
C3_Witness ==
  /\ probe.op = "findMount"
  /\ probe.result # 0
  /\ \E j \in 1..Len(kernelConfig.mounts) :
       /\ j > probe.result
       /\ kernelConfig.mounts[j].path = kernelConfig.mounts[probe.result].path
       /\ kernelConfig.mounts[j].target # kernelConfig.mounts[probe.result].target

\* C4 (as claimed): a request resolved through a mount fetches, with its own
\* method, the path mount.target followed by the request path without its first
\* mount.path.length characters.
C4_MountTarget ==
  probe.op = "handleRequest" /\ probe.result.via = "mount" =>
    LET mount == kernelConfig.mounts[probe.result.index]
    IN /\ probe.result.fetch.url =
            SameOrigin(mount.target \o Substring(probe.request.pathname, Len(mount.path)))
       /\ probe.result.fetch.method = probe.request.method

\* C5 (as claimed): matchPattern accepts the path exactly when the path is the
\* pattern with each * replaced by some character sequence.
C5_GlobSemantics ==
  probe.op = "matchPattern" =>
    (probe.result = "yes" <=> GlobAccepts(probe.pattern, probe.pathname))

\* C6 (as claimed): when no key equals the path, matchRoute returns the route of
\* the first-declared pattern that accepts it, and returns no route only when no
\* pattern accepts the path.
C6_FirstPattern ==
  probe.op = "matchRoute" /\ ExactRoute(kernelConfig.routes, probe.pathname) = 0 =>
    LET acc == Accepting(kernelConfig, probe.pathname)
    IN /\ acc # {} => probe.result = RouteResult("route", Min(acc))
       /\ probe.result.kind = "none" => acc = {}

CacheFirstReqs == {r \in ReqIds : reqs[r].strategy = "cache-first"}

\* C8: under cache-first, when the cache the request opened under CACHE_NAME holds
\* an entry for the request at the time of the lookup, that entry is the response
\* and the request issues no network fetch.
C8_CacheFirstHit ==
  \A r \in CacheFirstReqs :
    reqs[r].lookup # NoResponse =>
      /\ reqs[r].pc = "done"
      /\ reqs[r].response = reqs[r].lookup
      /\ reqs[r].source = "cache"
      /\ reqs[r].fetches = 0
      /\ ~reqs[r].raised

\* C8 witness: the second request is answered from the cache with what the first
\* request fetched from the network
C8_Witness ==
  \E r1, r2 \in CacheFirstReqs :
    /\ r1 # r2
    /\ reqs[r1].net = "ok"
    /\ reqs[r2].lookup = reqs[r1].response
    /\ reqs[r2].pc = "done"
    /\ reqs[r2].source = "cache"

\* C9 (as claimed): under cache-first, once a request for a resource has completed
\* with an ok network fetch, every request for the same resource that starts later,
\* with no CLEAR_CACHE in between, returns the content of that fetch and issues no
\* network fetch.
C9_Idempotent ==
  \A r1, r2 \in CacheFirstReqs :
    ( /\ reqs[r1].pc = "done"
      /\ reqs[r1].net = "ok"
      /\ reqs[r1].method = "GET"
      /\ reqs[r2].pc = "done"
      /\ reqs[r2].method = reqs[r1].method
      /\ reqs[r2].pathname = reqs[r1].pathname
      /\ r1 \in reqs[r2].since )
    => reqs[r2].response = reqs[r1].response /\ reqs[r2].fetches = 0

\* C10, the response: under cache-first, a request whose lookup missed and whose
\* network fetch failed hard completes with status 503 and the fixed body, and does
\* not raise
C10_Response ==
  \A r \in CacheFirstReqs :
    reqs[r].net = "fail" =>
      /\ reqs[r].pc = "done"
      /\ reqs[r].lookup = NoResponse
      /\ reqs[r].response = Response(503, "Network error")
      /\ ~reqs[r].raised

\* C10, the cache: the step in which the fetch of a cache-first request fails
\* changes no cache and starts no cache.put
C10_CacheUnchanged ==
  (\E r \in ReqIds : reqs[r].pc = "cfFetch" /\ reqs'[r].net = "fail")
    => UNCHANGED <<otherCaches, cleaning, currentCache, cacheObjs, writers, puts>>

\* C10: under cache-first with a cache miss, a hard network failure yields status
\* 503 with a fixed body, the call never raises, and the cache is left unchanged.
C10_NetworkFailure == []C10_Response /\ [][C10_CacheUnchanged]_vars

\* C10 witness: a cache-first request has missed the cache, its fetch has failed,
\* and it is answered 503
C10_Witness ==
  \E r \in CacheFirstReqs :
    /\ reqs[r].pc = "done"
    /\ reqs[r].net = "fail"
    /\ reqs[r].fetches = 1
    /\ reqs[r].response.status = 503

(***************************************************************************)
(* Properties of the network-first strategy.                               *)
(***************************************************************************)
\* the requests handled by networkFirst
NetworkFirstReqs == {r \in ReqIds : reqs[r].strategy = "network-first"}

\* the response cacheFirst answers a hard network failure with (line 306)
CacheFirstFailure ==
  cacheFirstAfterFetch(IdleReq, [kind |-> "fail", response |-> NoResponse]).response

\* C11: under network-first, when the network fetch fails hard and the cache opened
\* in the catch block holds an entry for the request, that entry is the response:
\* no error response, no rejection.
C11_NetworkFirstFallback ==
  \A r \in NetworkFirstReqs :
    reqs[r].net = "fail" /\ reqs[r].lookup # NoResponse =>
      /\ reqs[r].pc = "done"
      /\ reqs[r].response = reqs[r].lookup
      /\ reqs[r].source = "cache"
      /\ reqs[r].response.status = 200
      /\ ~reqs[r].raised

\* C11 witness: a network-first request whose fetch failed is answered with the
\* entry the cache held
C11_Witness ==
  \E r \in NetworkFirstReqs :
    /\ reqs[r].pc = "done"
    /\ reqs[r].net = "fail"
    /\ reqs[r].lookup = Response(200, "v1")
    /\ reqs[r].response = Response(200, "v1")

\* C12 (as claimed): under network-first, when the network fetch fails hard and the
\* cache holds no entry for the request, the response has status 503 and the body
\* "no cache available", which differs from the body of cache-first's failure
\* response; the call never raises.
C12_NoCacheAvailableBody ==
  \A r \in NetworkFirstReqs :
    reqs[r].net = "fail" /\ reqs[r].pc = "done" /\ reqs[r].lookup = NoResponse =>
      /\ reqs[r].response = Response(503, "no cache available")
      /\ reqs[r].response.body # CacheFirstFailure.body
      /\ ~reqs[r].raised

\* C12 (amended): under network-first, when the network fetch fails hard and the
\* cache holds no entry for the request, the response has status 503 and the body
\* "Network error and no cache", which differs from the body of cache-first's
\* failure response; the call never raises.
C12_NetworkFirstNoCache ==
  \A r \in NetworkFirstReqs :
    reqs[r].net = "fail" /\ reqs[r].pc = "done" /\ reqs[r].lookup = NoResponse =>
      /\ reqs[r].response = Response(503, "Network error and no cache")
      /\ reqs[r].response.body # CacheFirstFailure.body
      /\ reqs[r].source = "kernel"
      /\ ~reqs[r].raised

\* C12 witness: a network-first request whose fetch failed and whose lookup missed
\* is answered 503
C12_Witness ==
  \E r \in NetworkFirstReqs :
    /\ reqs[r].pc = "done"
    /\ reqs[r].net = "fail"
    /\ reqs[r].lookup = NoResponse
    /\ reqs[r].cache # 0
    /\ reqs[r].response.status = 503

(***************************************************************************)
(* Properties of the stale-while-revalidate strategy.                      *)
(***************************************************************************)
\* the requests handled by staleWhileRevalidate
StaleWhileRevalidateReqs ==
  {r \in ReqIds : reqs[r].strategy = "stale-while-revalidate"}

\* C13 (as claimed): under stale-while-revalidate with a cached entry present, the
\* request returns the cached value without waiting for the background fetch, and
\* any request for the same resource issued after that background fetch has
\* completed with an ok response returns the newly fetched value.
C13_StaleThenFresh ==
  /\ \A r \in StaleWhileRevalidateReqs :
       reqs[r].lookup # NoResponse =>
         /\ reqs[r].pc = "done"
         /\ reqs[r].response = reqs[r].lookup
         /\ reqs[r].source = "cache"
  /\ \A r1, r2 \in StaleWhileRevalidateReqs :
       ( /\ reqs[r1].lookup # NoResponse
         /\ reqs[r1].bg = "settled"
         /\ reqs[r1].net = "ok"
         /\ r1 \in reqs[r2].afterBg
         /\ reqs[r2].pathname = reqs[r1].pathname
         /\ reqs[r2].pc = "done" )
       => reqs[r2].response = reqs[r1].fetched

\* C14 (as claimed): under stale-while-revalidate with a cached entry present, a
\* failure of the background fetch does not alter the response already returned and
\* does not surface: no rejection reaches the caller and none is left unhandled in
\* the kernel.
C14_BackgroundFailureSilent ==
  \A r \in StaleWhileRevalidateReqs :
    reqs[r].lookup # NoResponse /\ reqs[r].net = "fail" =>
      /\ reqs[r].response = reqs[r].lookup
      /\ ~reqs[r].raised
      /\ ~reqs[r].unhandled

(***************************************************************************)
(* Properties of all strategies.                                           *)
(***************************************************************************)
\* response.ok
Ok(response) == response.status \in 200..299

\* the requests handled by one of the three caching strategies
StrategyReqs ==
  {r \in ReqIds :
     reqs[r].strategy \in {"cache-first", "network-first", "stale-while-revalidate"}}

C16_NeverRaises ==
  \A r \in ReqIds :
    reqs[r].pc = "done" => ~reqs[r].raised /\ reqs[r].response # NoResponse

(***************************************************************************)
(* Properties of the cache lifecycle.                                      *)
(***************************************************************************)
\* C17: once activation cleanup is complete, no cache of an older kernel version is
\* left, and no other cache was deleted: the caches without the kernel's prefix are
\* all there, and so is the current-version cache if one was ever created and no
\* CLEAR_CACHE was received.
C17_ActivationPurge ==
  /\ {APP_CACHE, NEAR_CACHE} \subseteq otherCaches
  /\ phase = "active" =>
       /\ otherCaches \cap {OLD_CACHE, OLDER_CACHE} = {}
       /\ (objCount > 0 /\ \A m \in MsgIds : ctl[m].pc = "idle") => currentCache # 0

\* C17 witness: activation is complete, the current-version cache that was there
\* before is still there, and of the other caches only those without the prefix
C17_Witness ==
  /\ phase = "active"
  /\ \A r \in ReqIds : reqs[r].pc = "idle"
  /\ \A m \in MsgIds : ctl[m].pc = "idle"
  /\ currentCache = 1
  /\ otherCaches = {APP_CACHE, NEAR_CACHE}

\* a step of the handling of a CLEAR_CACHE message
ClearCacheStep == \E m \in MsgIds : ctl'[m] # ctl[m] /\ ctl'[m].type = "CLEAR_CACHE"

\* the step in which caches.delete(CACHE_NAME) takes effect
ClearCacheDeleteStep ==
  \E m \in MsgIds : ctl[m].pc = "deleting" /\ ctl'[m].pc = "deleted"

\* C18, the step: handling CLEAR_CACHE changes nothing but CacheStorage's entry
\* for CACHE_NAME, which the delete removes
C18_ClearFrame ==
  ClearCacheStep =>
    /\ UNCHANGED <<otherCaches, kernelConfig, cacheObjs, writers, puts, reqs, phase>>
    /\ IF ClearCacheDeleteStep THEN currentCache' = 0 ELSE UNCHANGED currentCache

C19_EmptyAtReply ==
  \A m \in MsgIds :
    ctl[m].type = "CLEAR_CACHE" /\ ctl[m].existed /\ ctl[m].pc = "replied" =>
      /\ ctl[m].reply = SuccessReply
      /\ ctl[m].entriesAtReply = 0

(***************************************************************************)
(* Properties of the control messages.                                     *)
(***************************************************************************)
\* C20, the step: the step that receives a KERNEL_STATUS message posts the reply,
\* made of the version, the configuration in memory and active: true, and changes
\* neither the configuration nor any cache
C20_StatusStep ==
  \A m \in MsgIds :
    ctl[m].pc = "idle" /\ ctl'[m].type = "KERNEL_STATUS" =>
      /\ ctl'[m].pc = "replied"
      /\ ctl'[m].reply = [kind |-> "status", version |-> KERNEL_VERSION,
                          config |-> kernelConfig, active |-> TRUE]
      /\ UNCHANGED <<kernelConfig, otherCaches, currentCache, cacheObjs, writers, puts>>

\* C20, the state: a KERNEL_STATUS message is never waiting for its reply, and has
\* exactly one
C20_StatusState ==
  \A m \in MsgIds :
    ctl[m].type = "KERNEL_STATUS" =>
      /\ ctl[m].pc = "replied"
      /\ ctl[m].replies = 1
      /\ ctl[m].reply.version = KERNEL_VERSION
      /\ ctl[m].reply.active

\* C20: a KERNEL_STATUS message is answered in the step that receives it by
\* exactly one reply {version, config: the configuration in memory, active: true};
\* handling it changes neither the configuration nor any cache.
C20_KernelStatus == []C20_StatusState /\ [][C20_StatusStep]_vars

\* C20 witness: a KERNEL_STATUS message received after a restart of the worker,
\* before any configuration was loaded again, was answered with config: null
C20_Witness ==
  \E m \in MsgIds :
    /\ ctl[m].type = "KERNEL_STATUS"
    /\ ctl[m].pc = "replied"
    /\ ctl[m].reply.config = NoConfig
    /\ restarts = 1

(***************************************************************************)
(* Control messages: RELOAD_CONFIG and unknown types; the Config Loader.   *)
(***************************************************************************)
ReloadMsgs == {m \in MsgIds : ctl[m].type = "RELOAD_CONFIG"}

\* what a load leaves in kernelConfig: the content read when the load got as far
\* as response.json() and the content was well-formed, else the default
LoadResult(parsing, body) ==
  IF parsing /\ body.ok THEN body.config ELSE getDefaultConfig

\* C21, the state: a RELOAD_CONFIG message has no reply while its load is under
\* way, and exactly one reply, {success: true}, afterwards
C21_ReloadState ==
  \A m \in ReloadMsgs :
    /\ ctl[m].pc \in {"reloadFetch", "reloadJson", "replied"}
    /\ ctl[m].pc # "replied" => ctl[m].replies = 0 /\ ctl[m].reply = NoReply
    /\ ctl[m].pc = "replied" =>
         ctl[m].replies = 1 /\ ctl[m].reply = [kind |-> "success", success |-> TRUE]

\* C21, the step: the reply is posted by the step that ends the message's load,
\* and the configuration in memory is then the result of that load
C21_ReloadStep ==
  \A m \in MsgIds :
    ctl'[m].type = "RELOAD_CONFIG" /\ ctl'[m].replies > ctl[m].replies =>
      /\ ctl[m].pc \in {"reloadFetch", "reloadJson"}
      /\ kernelConfig' = LoadResult(ctl[m].pc = "reloadJson", ctl[m].body)
      /\ kernelConfig'.loaded

\* C21: a RELOAD_CONFIG message gets at most one reply, {success: true}, and the
\* reply is sent only when the load started for the message has finished and
\* kernelConfig holds that load's result.
C21_ReloadConfig == []C21_ReloadState /\ [][C21_ReloadStep]_vars

\* C21 witness: a RELOAD_CONFIG message was answered and its load replaced the
\* configuration of the install by another one
C21_Witness ==
  \E m \in ReloadMsgs :
    /\ ctl[m].pc = "replied"
    /\ ctl[m].replies = 1
    /\ restarts = 0
    /\ kernelConfig.strategy = "network-first"
    /\ \E r \in ReqIds : reqs[r].pc = "done" /\ reqs[r].strategy = "cache-first"

\* the control messages of a type the listener has no case for
UnknownMsgs ==
  {m \in MsgIds : ctl[m].type \notin {"none", "KERNEL_STATUS", "RELOAD_CONFIG", "CLEAR_CACHE"}}

\* C22, the state: no reply has been posted for a message of an unknown type
C22_UnknownState ==
  \A m \in UnknownMsgs : ctl[m].replies = 0 /\ ctl[m].reply = NoReply

\* C22, the step: receiving a message of an unknown type leaves the configuration,
\* the cache storage, the Cache objects and the writes under way as they were
C22_UnknownStep ==
  \A m \in MsgIds :
    /\ ctl[m].pc = "idle"
    /\ ctl'[m].type \notin {"none", "KERNEL_STATUS", "RELOAD_CONFIG", "CLEAR_CACHE"}
    => UNCHANGED <<kernelConfig, otherCaches, currentCache, cacheObjs, writers, puts>>

\* C22: a control message whose type is none of KERNEL_STATUS, RELOAD_CONFIG and
\* CLEAR_CACHE never gets a reply, in any later state, and handling it changes
\* neither the configuration nor any cache.
C22_UnknownMessage == []C22_UnknownState /\ [][C22_UnknownStep]_vars

\* C22 witness: a message of an unknown type was received, the worker went on to
\* answer a later KERNEL_STATUS message, and the first message is still unanswered
C22_Witness ==
  \E m \in UnknownMsgs, n \in MsgIds :
    /\ ctl[m].pc = "ignored"
    /\ ctl[m].replies = 0
    /\ m < n
    /\ ctl[n].type = "KERNEL_STATUS"
    /\ ctl[n].replies = 1

\* C23, the default: no mounts, no routes, the cache-first strategy
C23_Default ==
  /\ getDefaultConfig.mounts = <<>>
  /\ getDefaultConfig.routes = <<>>
  /\ getDefaultConfig.strategy = "cache-first"

\* C23, the load of the install event
C23_InstallLoad ==
  phase \in {"installFetch", "installJson"} /\ phase' # phase =>
    \/ phase = "installFetch" /\ phase' = "installJson" /\ UNCHANGED kernelConfig
    \/ /\ phase' = "installed"
       /\ kernelConfig' = LoadResult(phase = "installJson", installBody)

\* C23, the load awaited by handleRequest: the request goes on, with the
\* configuration the load has set
C23_RequestLoad ==
  \A r \in ReqIds :
    reqs[r].pc \in {"loadFetch", "loadJson"} /\ reqs'[r] # reqs[r] =>
      \/ reqs[r].pc = "loadFetch" /\ reqs'[r].pc = "loadJson" /\ UNCHANGED kernelConfig
      \/ /\ reqs'[r].pc \notin {"idle", "loadFetch", "loadJson"}
         /\ kernelConfig' = LoadResult(reqs[r].pc = "loadJson", reqs[r].body)
         /\ reqs'[r].config = kernelConfig'
         /\ reqs'[r].via # "raise"

\* C23, the load of a RELOAD_CONFIG message: the then-callback runs
C23_ReloadLoad ==
  \A m \in MsgIds :
    ctl[m].pc \in {"reloadFetch", "reloadJson"} /\ ctl'[m] # ctl[m] =>
      \/ ctl[m].pc = "reloadFetch" /\ ctl'[m].pc = "reloadJson" /\ UNCHANGED kernelConfig
      \/ /\ ctl'[m].pc = "replied"
         /\ kernelConfig' = LoadResult(ctl[m].pc = "reloadJson", ctl[m].body)

\* C23: a load of the configuration always ends by handing control back to its
\* caller (install, handleRequest, the RELOAD_CONFIG callback); when the fetch
\* fails or answers with a non-ok status (a 404 among them), or the content is
\* malformed, kernelConfig is the default (no mounts, no routes, cache-first), and
\* when the content parses kernelConfig is the parsed content.
C23_LoaderNeverRaises ==
  []C23_Default /\ [][C23_InstallLoad /\ C23_RequestLoad /\ C23_ReloadLoad]_vars

\* C23 witness: after a restart of the worker the load awaited by a request read
\* a well-formed content, and the request was served under that configuration
C23_Witness ==
  \E r \in ReqIds :
    /\ restarts = 1
    /\ reqs[r].pc = "done"
    /\ reqs[r].body = NoBody
    /\ reqs[r].config.strategy = "stale-while-revalidate"
    /\ kernelConfig = reqs[r].config

\* the requests handleRequest has taken its decisions for
DecidedReqs == {r \in ReqIds : reqs[r].pc \notin {"idle", "loadFetch", "loadJson"}}

\* C24, the configuration: null, or all of what one load produced
C24_Wholesale ==
  \/ kernelConfig = NoConfig
  \/ \E body \in ConfigParses, parsing \in BOOLEAN : kernelConfig = LoadResult(parsing, body)

\* C24, the decisions of a request: the route or mount it was served through and
\* the strategy it was served with are those of one configuration
C24_OneConfig ==
  \A r \in DecidedReqs :
    LET cfg == reqs[r].config
        plan == handleRequest(cfg, Request(reqs[r].method, reqs[r].pathname))
    IN /\ \E body \in ConfigParses, parsing \in BOOLEAN : cfg = LoadResult(parsing, body)
       /\ reqs[r].via = plan.via
       /\ plan.via \in {"route", "mount"} => reqs[r].fetch = plan.fetch
       /\ plan.via = "default" => reqs[r].strategy = cfg.strategy

\* C24, the step: that configuration is the one in memory when handleRequest goes
\* past line 141, and no later step takes another decision for the request
C24_DecisionStep ==
  \A r \in ReqIds :
    /\ r \notin DecidedReqs /\ reqs'[r].pc \notin {"idle", "loadFetch", "loadJson"}
       => reqs'[r].config = kernelConfig'
    /\ r \in DecidedReqs
       => /\ reqs'[r].config = reqs[r].config
          /\ reqs'[r].via = reqs[r].via
          /\ reqs'[r].strategy = reqs[r].strategy

\* C24: kernelConfig is always null or the whole result of one load, and the route,
\* mount and strategy decisions of a request are all taken on the value kernelConfig
\* has when handleRequest goes past its load, whatever reloads complete while the
\* request is in flight.
C24_AtomicConfig == [](C24_Wholesale /\ C24_OneConfig) /\ [][C24_DecisionStep]_vars

\* C24 witness: a reload completed while a request was in flight; the request goes
\* on under the configuration it was decided on, which is no longer the current one
C24_Witness ==
  \E r \in DecidedReqs, m \in ReloadMsgs :
    /\ reqs[r].pc # "done"
    /\ reqs[r].strategy = "network-first"
    /\ ctl[m].pc = "replied"
    /\ kernelConfig.loaded
    /\ kernelConfig # reqs[r].config
    /\ kernelConfig.strategy = "stale-while-revalidate"

(***************************************************************************)
(* The client runtime (src/page9.js): the configuration of the page and    *)
(* the worker pool.                                                        *)
(***************************************************************************)
\* the workers section of a configuration: hasMin is whether workers.pool.min is
\* there, hasModules whether workers.modules is
MkClientConfig(enabled, hasMin, min, max, hasModules, modules) ==
  [loaded |-> TRUE, enabled |-> enabled, hasMin |-> hasMin, min |-> min, max |-> max,
   hasModules |-> hasModules, modules |-> modules]

\* Page9.getDefaultConfig: workers {enabled: true, pool: {min: 1, max: 4}, modules: []}
Page9_getDefaultConfig == MkClientConfig(TRUE, TRUE, 1, 4, TRUE, <<>>)

\* the URL of worker.example.js, and a reference the URL parser rejects
ExamplePath == <<"/", "w">>
BadPath == <<"/", "/">>

\* entries of workers.modules
ModulePool ==
  { [name |-> <<"example">>, path |-> ExamplePath],
    [name |-> <<"extra">>, path |-> BadPath],
    [name |-> PoolName(0), path |-> ExamplePath] }

ModuleLists == SeqsOf(ModulePool, 0, MaxModules)

\* the configurations page9.config.json may hold
ClientConfigs ==
  {MkClientConfig(enabled, TRUE, min, max, TRUE, modules) :
     enabled \in BOOLEAN, min \in 0..MaxPoolMin, max \in {1, 4}, modules \in ModuleLists}
  \cup {MkClientConfig(TRUE, FALSE, 0, 4, hasModules, <<>>) : hasModules \in BOOLEAN}

\* what response.json() may give in loadConfig
ClientParses ==
  {[ok |-> TRUE, config |-> c] : c \in ClientConfigs}
  \cup {[ok |-> FALSE, config |-> Page9_getDefaultConfig]}

\* loadConfig, lines 69-80: this.config afterwards
Page9_ParsedConfig(parse) == IF parse.ok THEN parse.config ELSE Page9_getDefaultConfig

\* a context whose script has just been started
NewContext(script) == [NoContext EXCEPT !.script = script]

\* the script a Worker constructed on this URL runs
ScriptAt(url) == IF url.path = ExamplePath THEN "example" ELSE "none"

\* createWorker, lines 137-169: a Worker on the inline script, entered in
\* this.workers under the name; rt is the page with the contexts
createWorker(rt, name) ==
  LET x == rt.page.created + 1
  IN [page |-> [rt.page EXCEPT !.created = x, !.workers[name] = x],
      contexts |-> [rt.contexts EXCEPT ![x] = NewContext("inline")],
      worker |-> x]

\* initializeWorkers, lines 119-122: the loop from i to poolSize - 1
RECURSIVE CreatePool(_, _, _)
CreatePool(rt, i, poolSize) ==
  IF i >= poolSize THEN rt
  ELSE LET made == createWorker(rt, PoolName(i))
       IN CreatePool([page |-> [made.page EXCEPT
                                  !.workerPool = Append(made.page.workerPool, made.worker)],
                      contexts |-> made.contexts],
                     i + 1, poolSize)

\* initializeWorkers, line 115, taking pool.min as it is
PoolSizeAsConfigured(cfg) == IF cfg.hasMin THEN cfg.min ELSE 1

\* initializeWorkers, line 115: this.config.workers.pool?.min || 1
PoolSize(cfg) == IF cfg.hasMin /\ cfg.min # 0 THEN cfg.min ELSE 1

\* loadWorkerModule, lines 174-187: new Worker(module.path) throws on a URL that
\* does not parse or is of another origin, which is caught and logged
loadWorkerModule(rt, module) ==
  LET url == ParseURL(module.path)
      x == rt.page.created + 1
  IN IF url.kind = "url" /\ url.origin = "self"
     THEN [page |-> [rt.page EXCEPT !.created = x, !.workers[module.name] = x],
           contexts |-> [rt.contexts EXCEPT ![x] = NewContext(ScriptAt(url))]]
     ELSE rt

\* init, line 26: registerKernel() settles; on a rejection init stops (lines 30-33)
KernelRegistered ==
  /\ page9.stage = "registering"
  /\ \E ok \in BOOLEAN :
       page9' = [page9 EXCEPT !.stage = IF ok THEN "loadFetch" ELSE "failed"]
  /\ UNCHANGED <<kernelConfig, kernelVars, probe, calls, contexts>>

\* loadConfig, lines 68-69 and 73-80: fetch('/page9.config.json') settles
PageConfigFetched ==
  /\ page9.stage = "loadFetch"
  /\ \E kind \in ConfigFetchKinds :
       IF kind = "ok"
       THEN \E body \in ClientParses :
              page9' = [page9 EXCEPT !.stage = "loadJson", !.body = body]
       ELSE page9' = [page9 EXCEPT !.stage = "configured",
                                   !.config = Page9_getDefaultConfig]
  /\ UNCHANGED <<kernelConfig, kernelVars, probe, calls, contexts>>

\* loadConfig, lines 70-72 and 77-80: response.json() settles
PageConfigParsed ==
  /\ page9.stage = "loadJson"
  /\ page9' = [page9 EXCEPT !.stage = "configured", !.body = NoBody,
                            !.config = Page9_ParsedConfig(page9.body)]
  /\ UNCHANGED <<kernelConfig, kernelVars, probe, calls, contexts>>

\* initializeWorkers, lines 110-125: nothing when workers are not enabled, else the
\* pool is created and the loop over the modules is entered
InitializeWorkers ==
  /\ page9.stage = "configured"
  /\ IF ~page9.config.enabled
     THEN page9' = [page9 EXCEPT !.stage = "ready"] /\ UNCHANGED contexts
     ELSE LET rt == CreatePool([page |-> page9, contexts |-> contexts], 0,
                               PoolSize(page9.config))
          IN /\ page9' = [rt.page EXCEPT
                            !.stage = "modules",
                            !.modulesLeft = IF page9.config.hasModules
                                            THEN page9.config.modules ELSE <<>>]
             /\ contexts' = rt.contexts
  /\ UNCHANGED <<kernelConfig, kernelVars, probe, calls>>

\* initializeWorkers, lines 126-128: one turn of the loop
LoadWorkerModule ==
  /\ page9.stage = "modules"
  /\ page9.modulesLeft # <<>>
  /\ LET rt == loadWorkerModule([page |-> page9, contexts |-> contexts],
                                Head(page9.modulesLeft))
     IN /\ page9' = [rt.page EXCEPT !.modulesLeft = Tail(page9.modulesLeft)]
        /\ contexts' = rt.contexts
  /\ UNCHANGED <<kernelConfig, kernelVars, probe, calls>>

\* initializeWorkers, line 131: the loop is over
WorkersInitialized ==
  /\ page9.stage = "modules"
  /\ page9.modulesLeft = <<>>
  /\ page9' = [page9 EXCEPT !.stage = "ready"]
  /\ UNCHANGED <<kernelConfig, kernelVars, probe, calls, contexts>>

InitPool == kernelConfig = NoConfig /\ probe = NoProbe /\ KernelAtRest /\ ClientAtRest

NextPool ==
  \/ KernelRegistered
  \/ PageConfigFetched
  \/ PageConfigParsed
  \/ InitializeWorkers
  \/ LoadWorkerModule
  \/ WorkersInitialized

SpecPool == InitPool /\ [][NextPool]_vars

(***************************************************************************)
(* Claims about the worker pool.                                           *)
(***************************************************************************)
\* the contexts a Worker was constructed for
Created == 1..page9.created

\* those of them that run the inline script of createWorker
Generic == {x \in Created : contexts[x].script = "inline"}

\* C25: once initializeWorkers is through, with workers enabled there are exactly
\* pool.min contexts of the generic (inline) script, whatever pool.min (0 included)
\* and pool.max are, and one more context for each entry of modules; with workers
\* disabled there is no context.
C25_PoolSize ==
  page9.stage = "ready" =>
    IF page9.config.enabled
    THEN /\ page9.config.hasMin =>
              Cardinality(Generic) = PoolSizeAsConfigured(page9.config)
         /\ Cardinality(Created \ Generic) = Len(page9.config.modules)
    ELSE Created = {}

(***************************************************************************)
(* The worker scripts: the inline script of createWorker (src/page9.js,    *)
(* lines 139-158) and the example module (src/worker.example.js).  A       *)
(* message is {type, payload, id}; a reply is {id, result} or {id, error}. *)
(* Numbers are JavaScript doubles; the values of this model stay far below *)
(* 2^53, where the arithmetic of doubles is that of the integers.          *)
(***************************************************************************)
\* most messages the example worker receives in the specification of the worker
MaxMessages == 3
\* largest value of a COMPUTE payload there
MaxValue == 5

\* a payload that is undefined, and a payload object {operation, value}
Undefined == [kind |-> "undefined", operation |-> "undefined", value |-> 0]
Payload(operation, value) == [kind |-> "object", operation |-> operation, value |-> value]

\* the message sendToWorker posts (line 213); call names the call it was posted
\* by and is not part of the data
Message(type, payload, id, call) ==
  [type |-> type, payload |-> payload, id |-> id, call |-> call]

\* a property that is not there
Absent == <<>>
NoResult == [kind |-> "undefined"]

\* a reply posted while msg is handled; of is that message and is not part of the data
Reply(msg, error, result) == [id |-> msg.id, error |-> error, result |-> result, of |-> msg]

\* what a function returns or throws
Returned(value) == [ok |-> TRUE, value |-> value, message |-> Absent]
Thrown(message) == [ok |-> FALSE, value |-> 0, message |-> message]

\* fibonacci, lines 158-164: the loop from i to n
RECURSIVE FibonacciLoop(_, _, _, _)
FibonacciLoop(i, n, a, b) == IF i > n THEN b ELSE FibonacciLoop(i + 1, n, b, a + b)

\* fibonacci (worker.example.js)
fibonacci(n) == IF n <= 1 THEN n ELSE FibonacciLoop(2, n, 0, 1)

\* factorial, lines 174-178: the loop from i to n
RECURSIVE FactorialLoop(_, _, _)
FactorialLoop(i, n, result) == IF i > n THEN result ELSE FactorialLoop(i + 1, n, result * i)

\* factorial (worker.example.js)
factorial(n) ==
  IF n < 0 THEN Thrown(<<"Factorial of negative number">>)
  ELSE IF n = 0 \/ n = 1 THEN Returned(1)
  ELSE Returned(FactorialLoop(2, n, 1))

\* handleCompute, lines 68-84: the switch on the operation
ComputeSwitch(operation, value) ==
  IF operation = "square" THEN Returned(value * value)
  ELSE IF operation = "cube" THEN Returned(value * value * value)
  ELSE IF operation = "fibonacci" THEN Returned(fibonacci(value))
  ELSE IF operation = "factorial" THEN factorial(value)
  ELSE Thrown(<<"Unknown operation: ", operation>>)

\* handleCompute, line 65: destructuring an undefined payload throws a TypeError
ComputeOutcome(payload) ==
  IF payload.kind = "undefined" THEN Thrown(<<"TypeError">>)
  ELSE ComputeSwitch(payload.operation, payload.value)

ComputeResult(payload, output, taskNumber) ==
  [kind |-> "compute", operation |-> payload.operation, input |-> payload.value,
   output |-> output, taskNumber |-> taskNumber]

\* handleCompute, counting the task only when the operation succeeded
handleComputeCountingSuccesses(ctx, msg) ==
  LET outcome == ComputeOutcome(msg.payload)
      counted == [ctx EXCEPT !.taskCount = IF outcome.ok THEN @ + 1 ELSE @]
  IN [ctx |-> counted,
      replies |-> << IF outcome.ok
                     THEN Reply(msg, Absent,
                                ComputeResult(msg.payload, outcome.value, counted.taskCount))
                     ELSE Reply(msg, outcome.message, NoResult) >>]

\* handleCompute, lines 61-100: taskCount++ comes before the try
handleCompute(ctx, msg) ==
  LET outcome == ComputeOutcome(msg.payload)
      counted == [ctx EXCEPT !.taskCount = @ + 1]
  IN [ctx |-> counted,
      replies |-> << IF outcome.ok
                     THEN Reply(msg, Absent,
                                ComputeResult(msg.payload, outcome.value, counted.taskCount))
                     ELSE Reply(msg, outcome.message, NoResult) >>]

\* handleStatus, lines 140-149
handleStatus(ctx, msg) ==
  [ctx |-> ctx,
   replies |-> << Reply(msg, Absent, [kind |-> "status", active |-> TRUE,
                                      tasksProcessed |-> ctx.taskCount,
                                      uptime |-> "running"]) >>]

\* handleEcho, lines 48-56; the number Date.now() returns is not modelled
handleEcho(ctx, msg) ==
  [ctx |-> ctx,
   replies |-> << Reply(msg, Absent, [kind |-> "echo", echo |-> msg.payload,
                                      timestamp |-> "Date.now()"]) >>]

\* a payload object {text, algorithm}; text is a sequence of char codes
HashPayload(text, algorithm) == [kind |-> "hash", text |-> text, algorithm |-> algorithm]

\* hash << 5 and hash & hash: the operands of this model stay within the 32-bit
\* integers, where << 5 multiplies by 32 and & of a number with itself returns it
ShiftLeft5(hash) == hash * 32
BitAndSelf(hash) == hash

\* Number.prototype.toString(16) of an integer
HexDigits == <<"0", "1", "2", "3", "4", "5", "6", "7", "8", "9", "a", "b", "c", "d", "e", "f">>
RECURSIVE ToHex(_)
ToHex(n) == IF n < 16 THEN <<HexDigits[n + 1]>> ELSE ToHex(n \div 16) \o <<HexDigits[(n % 16) + 1]>>
ToString16(n) == IF n < 0 THEN <<"-">> \o ToHex(0 - n) ELSE ToHex(n)

\* simpleHash, lines 186-191: the loop from character i on
RECURSIVE SimpleHashLoop(_, _, _)
SimpleHashLoop(str, i, hash) ==
  IF i > Len(str) THEN hash
  ELSE SimpleHashLoop(str, i + 1, BitAndSelf((ShiftLeft5(hash) - hash) + str[i]))

\* simpleHash (worker.example.js)
simpleHash(str) == ToString16(SimpleHashLoop(str, 1, 0))

\* djb2Hash, lines 199-201: the loop from character i on; the sum is not brought
\* back to 32 bits
RECURSIVE Djb2HashLoop(_, _, _)
Djb2HashLoop(str, i, hash) ==
  IF i > Len(str) THEN hash
  ELSE Djb2HashLoop(str, i + 1, (ShiftLeft5(hash) + hash) + str[i])

\* djb2Hash (worker.example.js)
djb2Hash(str) == ToString16(Djb2HashLoop(str, 1, 5381))

\* handleHash, lines 105-135: destructuring an undefined payload and str.length of
\* an undefined text throw a TypeError, which the catch answers with an error
handleHash(ctx, msg) ==
  [ctx |-> ctx,
   replies |->
     IF msg.payload.kind # "hash"
     THEN << Reply(msg, <<"TypeError">>, NoResult) >>
     ELSE << Reply(msg, Absent,
                   [kind |-> "hash", text |-> msg.payload.text,
                    algorithm |-> msg.payload.algorithm,
                    hash |-> IF msg.payload.algorithm = "djb2"
                             THEN djb2Hash(msg.payload.text)
                             ELSE simpleHash(msg.payload.text)]) >>]

\* worker.example.js, the message listener (lines 15-43)
exampleWorker(ctx, msg) ==
  IF msg.type = "ECHO" THEN handleEcho(ctx, msg)
  ELSE IF msg.type = "COMPUTE" THEN handleCompute(ctx, msg)
  ELSE IF msg.type = "HASH" THEN handleHash(ctx, msg)
  ELSE IF msg.type = "STATUS" THEN handleStatus(ctx, msg)
  ELSE [ctx |-> ctx,
        replies |-> << Reply(msg, <<"Unknown message type: ", msg.type>>, NoResult) >>]

\* the inline script of createWorker (page9.js, lines 140-155): payload.value of an
\* undefined payload throws out of the listener, and nothing is posted
inlineWorker(ctx, msg) ==
  [ctx |-> ctx,
   replies |->
     IF msg.type = "ECHO"
     THEN << Reply(msg, Absent, [kind |-> "payload", payload |-> msg.payload]) >>
     ELSE IF msg.type = "COMPUTE"
     THEN IF msg.payload.kind = "undefined" THEN <<>>
          ELSE << Reply(msg, Absent, [kind |-> "number", n |-> msg.payload.value * 2]) >>
     ELSE << Reply(msg, <<"Unknown message type">>, NoResult) >>]

\* the listener of the script the context runs
RunScript(ctx, msg) ==
  IF ctx.script = "example" THEN exampleWorker(ctx, msg) ELSE inlineWorker(ctx, msg)

\* a message event in worker context x: the listener handles the first message of
\* the inbox; computes counts the COMPUTE messages received, for the claims
WorkerReceive(x) ==
  /\ contexts[x].script # "none"
  /\ contexts[x].inbox # <<>>
  /\ LET msg == Head(contexts[x].inbox)
         out == RunScript(contexts[x], msg)
     IN contexts' = [contexts EXCEPT
                       ![x] = [out.ctx EXCEPT
                                 !.inbox = Tail(contexts[x].inbox),
                                 !.outbox = contexts[x].outbox \o out.replies,
                                 !.computes = IF msg.type = "COMPUTE" THEN @ + 1 ELSE @]]
  /\ UNCHANGED <<kernelConfig, kernelVars, probe, page9, calls>>

(***************************************************************************)
(* The example worker on its own: messages are posted to it one at a time  *)
(* and its replies are taken.                                              *)
(***************************************************************************)
ComputeValues == (-1)..MaxValue

\* the texts of HASH payloads
HashTexts == {<<>>, <<97>>, <<97, 98>>, <<97, 98, 99>>}

WorkerMessages ==
  {Message("COMPUTE", Payload(op, v), <<"a">>, 0) :
     op \in {"square", "cube", "fibonacci", "factorial", "sqrt"}, v \in ComputeValues}
  \cup {Message("HASH", HashPayload(text, algorithm), <<"a">>, 0) :
          text \in HashTexts, algorithm \in {"simple", "djb2", "md5"}}
  \cup {Message(type, Undefined, <<"a">>, 0) :
          type \in {"ECHO", "COMPUTE", "HASH", "STATUS", "PING"}}

InitCompute ==
  /\ kernelConfig = NoConfig
  /\ KernelAtRest
  /\ page9 = NewPage9
  /\ calls = [c \in CallIds |-> IdleCall]
  /\ contexts = [x \in CtxIds |-> IF x = 1 THEN NewContext("example") ELSE NoContext]
  /\ probe = [op |-> "posted", n |-> 0]

\* worker.postMessage(msg) by the owner of the worker
PostToWorker ==
  /\ probe.n < MaxMessages
  /\ contexts[1].inbox = <<>>
  /\ contexts[1].outbox = <<>>
  /\ \E msg \in WorkerMessages :
       contexts' = [contexts EXCEPT ![1].inbox = <<msg>>]
  /\ probe' = [probe EXCEPT !.n = @ + 1]
  /\ UNCHANGED <<kernelConfig, kernelVars, page9, calls>>

\* the owner's message listener takes the reply
ReplyTaken ==
  /\ contexts[1].outbox # <<>>
  /\ contexts' = [contexts EXCEPT ![1].outbox = Tail(@)]
  /\ UNCHANGED <<kernelConfig, kernelVars, probe, page9, calls>>

NextCompute == PostToWorker \/ WorkerReceive(1) \/ ReplyTaken

SpecCompute == InitCompute /\ [][NextCompute]_vars

(***************************************************************************)
(* Claims about the example worker.                                        *)
(***************************************************************************)
\* the Fibonacci numbers and the factorial as they are defined
RECURSIVE Fib(_)
Fib(n) == IF n = 0 THEN 0 ELSE IF n = 1 THEN 1 ELSE Fib(n - 1) + Fib(n - 2)

RECURSIVE Fact(_)
Fact(n) == IF n = 0 THEN 1 ELSE n * Fact(n - 1)

\* the operation applied to the value
Applied(operation, value) ==
  IF operation = "square" THEN value * value
  ELSE IF operation = "cube" THEN value * value * value
  ELSE IF operation = "fibonacci" THEN Fib(value)
  ELSE Fact(value)

\* the values an operation is defined on
ValidValue(operation, value) ==
  operation \in {"fibonacci", "factorial"} => value >= 0

\* C30: the reply of the example worker to a COMPUTE message with an operation
\* among square, cube, fibonacci and factorial and a value the operation is defined
\* on has no error and the result {operation, input: value, output: the operation
\* applied to the value, taskNumber: the number of COMPUTE messages the worker has
\* received so far, those answered with an error included}.
C30_ComputeResult ==
  \A i \in 1..Len(contexts[1].outbox) :
    LET reply == contexts[1].outbox[i]
        msg == reply.of
    IN /\ msg.type = "COMPUTE"
       /\ msg.payload.kind = "object"
       /\ msg.payload.operation \in {"square", "cube", "fibonacci", "factorial"}
       /\ ValidValue(msg.payload.operation, msg.payload.value)
       => /\ reply.id = msg.id
          /\ reply.error = Absent
          /\ reply.result =
               [kind |-> "compute", operation |-> msg.payload.operation,
                input |-> msg.payload.value,
                output |-> Applied(msg.payload.operation, msg.payload.value),
                taskNumber |-> contexts[1].computes]

\* C30 witness: square of 5 gives 25, as the third COMPUTE message after two that
\* were answered with an error
C30_Witness ==
  /\ contexts[1].outbox # <<>>
  /\ contexts[1].outbox[1].of.payload = Payload("square", 5)
  /\ contexts[1].outbox[1].result.kind = "compute"
  /\ contexts[1].outbox[1].result.output = 25
  /\ contexts[1].outbox[1].result.taskNumber = 3
  /\ contexts[1].computes = 3

(***************************************************************************)
(* The dispatcher (Page9.sendToWorker) with the workers of an initialised  *)
(* page: the pool worker worker-0 and the module "example".                *)
(***************************************************************************)
\* s.substr(start, length)
substr(s, start, length) ==
  SubSeq(s, start + 1, IF Len(s) < start + length THEN Len(s) ELSE start + length)

\* what Math.random().toString(36) may give
RandomStrings == {<<"0", ".", "a">>, <<"0", ".", "b">>}

\* line 199
CorrelationId(random) == substr(random, 2, 9)

\* how a promise is settled
Resolved(value) == [kind |-> "resolved", value |-> value, message |-> Absent]
Rejected(message) == [kind |-> "rejected", value |-> NoResult, message |-> message]

\* resolve or reject of a promise in which the last call wins
SettleLastWins(call, outcome, by) ==
  [call EXCEPT !.state = outcome.kind, !.outcome = outcome, !.by = by,
               !.settled = @ + 1]

\* resolve(value) or reject(error) of the promise of a call (line 198): a promise
\* that is settled stays as it is; by records who settled it
Settle(call, outcome, by) ==
  IF call.state = "pending"
  THEN [call EXCEPT !.state = outcome.kind, !.outcome = outcome, !.by = by,
                    !.settled = @ + 1]
  ELSE call

\* the handler of lines 201-210, resolving whatever the reply carries
handlerIgnoringError(call, data) ==
  IF data.id = call.id
  THEN Settle([call EXCEPT !.handler = FALSE], Resolved(data.result), "reply")
  ELSE call

\* the handler of lines 201-210 on a message event with this data
handler(call, data) ==
  IF data.id = call.id
  THEN Settle([call EXCEPT !.handler = FALSE],
              IF data.error # Absent THEN Rejected(data.error) ELSE Resolved(data.result),
              "reply")
  ELSE call

\* the calls the page may make: testWorker's, one with an undefined payload, two
\* of the example module, one of a name that has no worker
CallInputs ==
  { [name |-> PoolName(0), type |-> "COMPUTE", payload |-> Payload("undefined", 42)],
    [name |-> PoolName(0), type |-> "COMPUTE", payload |-> Undefined],
    [name |-> <<"example">>, type |-> "COMPUTE", payload |-> Payload("square", 5)],
    [name |-> <<"example">>, type |-> "COMPUTE", payload |-> Payload("factorial", -1)],
    [name |-> <<"extra">>, type |-> "ECHO", payload |-> Undefined] }

\* the configuration of the page of this specification
DispatchConfig ==
  MkClientConfig(TRUE, TRUE, 1, 4, TRUE, <<[name |-> <<"example">>, path |-> ExamplePath]>>)

\* the page and the contexts when initializeWorkers is through
ReadyRuntime ==
  LET start == [page |-> [NewPage9 EXCEPT !.config = DispatchConfig],
                contexts |-> [x \in CtxIds |-> NoContext]]
      pool == CreatePool(start, 0, PoolSize(DispatchConfig))
      loaded == loadWorkerModule(pool, DispatchConfig.modules[1])
  IN [page |-> [loaded.page EXCEPT !.stage = "ready"], contexts |-> loaded.contexts]

InitWorkers ==
  /\ kernelConfig = NoConfig
  /\ probe = NoProbe
  /\ KernelAtRest
  /\ page9 = ReadyRuntime.page
  /\ contexts = ReadyRuntime.contexts
  /\ calls = [c \in CallIds |-> IdleCall]

\* the operations the page has started so far: calls of sendToWorker and calls of
\* getKernelStatus, reloadConfig and clearCache
OpsSoFar == page9.ops + Cardinality({c \in CallIds : calls[c].state # "idle"})

\* sendToWorker throwing after it has added a handler and started the timer
WorkerNotFoundLate(name) ==
  [Settle([IdleCall EXCEPT !.state = "pending", !.name = name],
          Rejected(<<"Worker ", name, " not found">>), "lookup")
     EXCEPT !.handler = TRUE, !.timer = "armed"]

\* sendToWorker, lines 193-196: this.workers.get(workerName) finds nothing and the
\* function throws, which rejects the promise of the call; nothing else has run
WorkerNotFound(name) ==
  Settle([IdleCall EXCEPT !.state = "pending", !.name = name],
         Rejected(<<"Worker ", name, " not found">>), "lookup")

\* sendToWorker, lines 192-220: without a worker of that name the call is rejected
\* at once; else the handler is added, the message posted and the timer started
SendToWorker(c) ==
  /\ page9.stage = "ready"
  /\ OpsSoFar < MaxCalls
  /\ calls[c].state = "idle"
  /\ \A d \in CallIds : d < c => calls[d].state # "idle"
  /\ \E input \in CallInputs, random \in RandomStrings :
       LET worker == page9.workers[input.name]
           id == CorrelationId(random)
       IN IF worker = 0
          THEN /\ calls' = [calls EXCEPT ![c] = WorkerNotFound(input.name)]
               /\ UNCHANGED contexts
          ELSE /\ calls' = [calls EXCEPT ![c] =
                              [IdleCall EXCEPT !.state = "pending", !.name = input.name,
                                               !.worker = worker, !.id = id,
                                               !.handler = TRUE, !.timer = "armed"]]
               /\ contexts' = [contexts EXCEPT ![worker].inbox =
                                 Append(@, Message(input.type, input.payload, id, c))]
  /\ UNCHANGED <<kernelConfig, kernelVars, probe, page9>>

\* a message event on the Worker object of context x: every handler that is
\* registered on it runs on the data (lines 201-210)
Deliver(x) ==
  /\ contexts[x].outbox # <<>>
  /\ LET data == Head(contexts[x].outbox)
     IN calls' = [c \in CallIds |->
                    IF calls[c].handler /\ calls[c].worker = x
                    THEN handler(calls[c], data) ELSE calls[c]]
  /\ contexts' = [contexts EXCEPT ![x].outbox = Tail(@)]
  /\ UNCHANGED <<kernelConfig, kernelVars, probe, page9>>

\* the callback of setTimeout, lines 216-219; the timer is never cleared, so it
\* runs for every call that got as far as line 216
Timeout(c) ==
  /\ calls[c].timer = "armed"
  /\ calls' = [calls EXCEPT ![c] =
                 Settle([calls[c] EXCEPT !.timer = "fired", !.handler = FALSE],
                        Rejected(<<"Worker timeout">>), "timeout")]
  /\ UNCHANGED <<kernelConfig, kernelVars, probe, page9, contexts>>

NextWorkers ==
  \/ \E c \in CallIds : SendToWorker(c)
  \/ \E x \in CtxIds : WorkerReceive(x)
  \/ \E x \in CtxIds : Deliver(x)
  \/ \E c \in CallIds : Timeout(c)

SpecWorkers == InitWorkers /\ [][NextWorkers]_vars

\* a timer that was started runs out: the 5000 ms pass
SpecWorkersFair == SpecWorkers /\ \A c \in CallIds : WF_vars(Timeout(c))

(***************************************************************************)
(* Claims about the dispatcher.                                            *)
(***************************************************************************)
Settled == {c \in CallIds : calls[c].state \in {"resolved", "rejected"}}

\* C26, the state: a call is pending with its handler registered and its timer
\* running, or it was settled, once, and its handler is gone
C26_Entry ==
  \A c \in CallIds :
    /\ calls[c].settled <= 1
    /\ calls[c].state = "pending" =>
         calls[c].handler /\ calls[c].timer = "armed" /\ calls[c].settled = 0
    /\ c \in Settled => ~calls[c].handler /\ calls[c].settled = 1
    /\ calls[c].handler => calls[c].state = "pending"

\* C26, the step: a settled call keeps its outcome
C26_Keeps ==
  \A c \in Settled :
    /\ calls'[c].state = calls[c].state
    /\ calls'[c].outcome = calls[c].outcome
    /\ calls'[c].by = calls[c].by

\* C26: every call of sendToWorker is settled at most once, by the matching reply
\* or by the timeout, whichever comes first, and whatever comes second (the timeout
\* after a reply, a reply after the timeout) leaves the outcome as it is.
C26_SettlesOnce == []C26_Entry /\ [][C26_Keeps]_vars

\* C26 witness: a call was resolved by its reply and its timer ran out afterwards;
\* another was rejected by its timer and the worker's reply was delivered afterwards
C26_Witness ==
  \E c, d \in Settled :
    /\ calls[c].by = "reply"
    /\ calls[c].state = "resolved"
    /\ calls[c].timer = "fired"
    /\ calls[d].by = "timeout"
    /\ calls[d].name = <<"example">>
    /\ contexts[calls[d].worker].computes >= 1
    /\ contexts[calls[d].worker].outbox = <<>>

\* C27, the deadline: a pending call does not stay pending
C27_Eventually ==
  \A c \in CallIds : (calls[c].state = "pending") ~> (calls[c].state # "pending")

\* C27, the rejection: a call whose timer ran out before a reply settled it is
\* rejected with the timeout error
C27_TimedOut ==
  \A c \in CallIds :
    calls[c].timer = "fired" =>
      \/ calls[c].by = "reply"
      \/ calls[c].by = "timeout" /\ calls[c].outcome = Rejected(<<"Worker timeout">>)

\* C27, the late reply: the reply to the message of a call that timed out changes
\* no call when it is delivered
C27_LateReply ==
  \A x \in CtxIds :
    /\ contexts[x].outbox # <<>>
    /\ contexts'[x].outbox = Tail(contexts[x].outbox)
    /\ Head(contexts[x].outbox).of.call \in CallIds
    /\ calls[Head(contexts[x].outbox).of.call].by = "timeout"
    => UNCHANGED calls

\* C27: a call whose worker sends no matching reply is rejected with the timeout
\* error once the deadline passes, and the reply to a call that timed out, arriving
\* afterwards, has no effect on that call or on any other pending call.
C27_TimeoutDiscards == C27_Eventually /\ []C27_TimedOut /\ [][C27_LateReply]_vars

\* C28, the step: a call that a reply settles is rejected with the reply's error
\* when the reply carries one, and resolved with the reply's result when not
C28_Step ==
  \A c \in CallIds :
    calls[c].state = "pending" /\ calls'[c].by = "reply" =>
      /\ contexts[calls[c].worker].outbox # <<>>
      /\ LET data == Head(contexts[calls[c].worker].outbox)
         IN /\ data.id = calls[c].id
            /\ data.error # Absent =>
                 calls'[c].state = "rejected" /\ calls'[c].outcome.message = data.error
            /\ data.error = Absent =>
                 calls'[c].state = "resolved" /\ calls'[c].outcome.value = data.result

\* C28: when the matching reply carries an error the call rejects with that
\* error's message, and when it carries none the call resolves with its result.
C28_ErrorOrResult == [][C28_Step]_vars

\* C28 witness: a call was rejected with the message of the example worker's
\* error reply, and another resolved with the result of the pool worker
C28_Witness ==
  \E c, d \in Settled :
    /\ calls[c].by = "reply"
    /\ calls[c].outcome = Rejected(<<"Factorial of negative number">>)
    /\ calls[d].by = "reply"
    /\ calls[d].outcome = Resolved([kind |-> "number", n |-> 84])

\* C29: no two calls that are pending at the same time on the same worker carry
\* the same id.
C29_FreshIds ==
  \A c, d \in CallIds :
    /\ c # d
    /\ calls[c].state = "pending" /\ calls[d].state = "pending"
    /\ calls[c].worker = calls[d].worker
    => calls[c].id # calls[d].id

(***************************************************************************)
(* Properties of the requests resolved through a route or a mount.         *)
(***************************************************************************)
\* the requests resolved through a route or through a mount
ResolvedReqs == {r \in ReqIds : reqs[r].via \in {"route", "mount"}}

\* C35: a request resolved through a route or through a mount never opens a cache,
\* never looks an entry up and never starts a cache.put: every put under way and
\* every entry a put stored is the work of a request handled by one of the three
\* caching strategies.
C35_ResolvedBypassCache ==
  /\ \A r \in ResolvedReqs :
       /\ reqs[r].strategy = "none"
       /\ reqs[r].cache = 0
       /\ reqs[r].lookup = NoResponse
       /\ reqs[r].source # "cache"
       /\ reqs[r].bg = "none"
  /\ \A p \in puts : p.by \in StrategyReqs
  /\ \A o \in ObjIds : \A k \in CacheKeys :
       writers[o][k] # 0 => writers[o][k] \in StrategyReqs

\* C35 witness: a request resolved through a route and one resolved through a
\* mount are both answered from the network; the current-version cache still holds
\* the one entry it had before them and none for their URLs
C35_Witness ==
  \E r, q \in ResolvedReqs :
    /\ reqs[r].pc = "done" /\ reqs[r].via = "route" /\ reqs[r].net = "ok"
    /\ reqs[q].pc = "done" /\ reqs[q].via = "mount" /\ reqs[q].net = "ok"
    /\ currentCache # 0
    /\ cacheObjs[currentCache][XPath] = Response(200, "v1")
    /\ cacheObjs[currentCache][reqs[r].pathname] = NoResponse
    /\ cacheObjs[currentCache][reqs[q].pathname] = NoResponse
    /\ puts = {}

(***************************************************************************)
(* Network-first and a response that is not ok.                            *)
(***************************************************************************)
\* C38: under network-first, a request whose fetch resolved with a response that
\* is not ok has returned that response: it opened no cache, looked no entry up
\* and started no cache.put, whatever the caches hold.
C38_NetworkFirstNotOk ==
  \A r \in NetworkFirstReqs :
    reqs[r].net = "notok" =>
      /\ reqs[r].pc = "done"
      /\ reqs[r].response = reqs[r].fetched
      /\ ~Ok(reqs[r].response)
      /\ reqs[r].source = "network"
      /\ ~reqs[r].raised
      /\ reqs[r].cache = 0
      /\ reqs[r].lookup = NoResponse
      /\ \A p \in puts : p.by # r
      /\ \A o \in ObjIds : \A k \in CacheKeys : writers[o][k] # r

\* C38 witness: the current-version cache holds an ok entry for the request, the
\* network answers 404, and the request returns the 404 while the entry stays
C38_Witness ==
  \E r \in NetworkFirstReqs :
    /\ reqs[r].pc = "done"
    /\ reqs[r].net = "notok"
    /\ reqs[r].response.status = 404
    /\ currentCache # 0
    /\ cacheObjs[currentCache][reqs[r].pathname] = Response(200, "v1")

(***************************************************************************)
(* Concurrent requests for one resource.                                   *)
(***************************************************************************)
\* the pcs of a request inside one of the three strategy functions
StrategyPcs ==
  {"cfOpen", "cfMatch", "cfFetch", "nfFetch", "nfOpenPut", "nfOpenCatch", "nfMatch",
   "swrOpen", "swrMatch", "swrFetch"}

\* the requests of a caching strategy whose cache.put into Cache object o under
\* key k has been carried out
Written(o, k) ==
  {r \in StrategyReqs :
     /\ reqs[r].cache = o /\ reqs[r].pathname = k /\ reqs[r].method = "GET"
     /\ reqs[r].net = "ok" /\ reqs[r].pc # "nfOpenPut"
     /\ \A p \in puts : p.by # r}

\* requests r and q ran concurrently: neither had completed when the other arrived
Concurrent(r, q) ==
  /\ r # q
  /\ reqs[r].pc # "idle" /\ reqs[q].pc # "idle"
  /\ r \notin reqs[q].after /\ q \notin reqs[r].after

\* last-writer-wins: once a put of a request for k into o has been carried out, the
\* entry is the response of the put carried out last, which is the ok response that
\* request fetched for k; an entry no put stored is the one the cache started with
C33_LastWriterWins ==
  \A o \in ObjIds : \A k \in CacheKeys :
     /\ Written(o, k) # {} =>
          /\ writers[o][k] \in Written(o, k)
          /\ cacheObjs[o][k] = reqs[writers[o][k]].fetched
          /\ Ok(cacheObjs[o][k])
     /\ writers[o][k] # 0 =>
          /\ reqs[writers[o][k]].pathname = k
          /\ reqs[writers[o][k]].cache = o
     /\ writers[o][k] = 0 /\ cacheObjs[o][k] # NoResponse =>
          o = 1 /\ k = XPath /\ cacheObjs[o][k] = Response(200, "v1")

\* a step of a request inside a strategy function changes that request's own
\* record and the cache store, and nothing else of the kernel
C33_StrategyStep ==
  \A r \in ReqIds :
     reqs[r].pc \in StrategyPcs /\ reqs'[r] # reqs[r] =>
       /\ \A q \in ReqIds \ {r} : reqs'[q] = reqs[q]
       /\ UNCHANGED <<kernelConfig, phase, otherCaches, cleaning, ctl, restarts,
                      installBody>>

\* C33: requests under a caching strategy share nothing but the cache store, and
\* in every Cache object the entry of a resource is the ok response of the put
\* carried out last among the requests for it, in every interleaving.
C33_ConcurrentRequests == []C33_LastWriterWins /\ [][C33_StrategyStep]_vars

\* C33 witness: two concurrent requests for one resource fetched different ok
\* responses and both puts have been carried out; the entry is the response of the
\* request that arrived first, whose put was carried out last
C33_Witness ==
  \E r, q \in StrategyReqs :
    /\ r < q /\ Concurrent(r, q)
    /\ reqs[r].pc = "done" /\ reqs[q].pc = "done"
    /\ reqs[r].pathname = reqs[q].pathname
    /\ reqs[r].cache = reqs[q].cache
    /\ {r, q} \subseteq Written(reqs[r].cache, reqs[r].pathname)
    /\ reqs[r].fetched # reqs[q].fetched
    /\ writers[reqs[r].cache][reqs[r].pathname] = r
    /\ cacheObjs[reqs[r].cache][reqs[r].pathname] = reqs[r].fetched

(***************************************************************************)
(* Strategy selection: an active kernel whose configuration has been       *)
(* loaded, with a cachingStrategy that is missing or that names none of    *)
(* the three strategies.                                                   *)
(***************************************************************************)
KnownStrategies == {"cache-first", "network-first", "stale-while-revalidate"}

\* configurations without routes and mounts: no cachingStrategy, two values that
\* are none of the three names (one differs from a name by its case only), and the
\* three names
StrategyConfigs ==
  {MkConfig(<<>>, <<>>, s) :
     s \in {NoStrategy, "network-only", "Cache-First"} \cup KnownStrategies}

\* the kernel after install and activate have completed with such a configuration
InitStrategy ==
  /\ kernelConfig \in StrategyConfigs
  /\ probe = NoProbe
  /\ phase = "active"
  /\ otherCaches = {OLD_CACHE, OLDER_CACHE, APP_CACHE, NEAR_CACHE}
                   \ cleanOldCachesFilter({OLD_CACHE, OLDER_CACHE, APP_CACHE, NEAR_CACHE})
  /\ cleaning = {}
  /\ installBody = NoBody
  /\ ClientAtRest
  /\ currentCache \in {0, 1}
  /\ objCount = currentCache
  /\ cacheObjs = [o \in ObjIds |-> IF o = 1 /\ currentCache = 1
                                   THEN [EmptyCache EXCEPT ![XPath] = Response(200, "v1")]
                                   ELSE EmptyCache]
  /\ writers = [o \in ObjIds |-> NoWriters]
  /\ reqs = [r \in ReqIds |-> IdleReq]
  /\ puts = {}
  /\ ctl = [m \in MsgIds |-> IdleMsg]
  /\ uncleared = {}
  /\ restarts = 0

NextStrategy ==
  \/ \E r \in ReqIds : FetchEvent(r)
  \/ \E r \in ReqIds : PlainFetchDone(r)
  \/ \E r \in ReqIds : CacheFirstOpen(r)
  \/ \E r \in ReqIds : CacheFirstMatch(r)
  \/ \E r \in ReqIds : CacheFirstFetchDone(r)
  \/ \E r \in ReqIds : NetworkFirstFetchDone(r)
  \/ \E r \in ReqIds : NetworkFirstOpenPut(r)
  \/ \E r \in ReqIds : NetworkFirstOpenCatch(r)
  \/ \E r \in ReqIds : NetworkFirstMatch(r)
  \/ \E r \in ReqIds : StaleWhileRevalidateOpen(r)
  \/ \E r \in ReqIds : StaleWhileRevalidateMatch(r)
  \/ \E r \in ReqIds : StaleWhileRevalidateFetchDone(r)
  \/ PutCommit

SpecStrategy == InitStrategy /\ [][NextStrategy]_vars

\* the requests decided on a configuration without a cachingStrategy
MissingStrategyReqs ==
  {r \in ReqIds : reqs[r].via = "default" /\ reqs[r].config.strategy = NoStrategy}

\* the requests decided on a cachingStrategy that is none of the three names
UnknownStrategyReqs ==
  {r \in ReqIds : /\ reqs[r].via = "default"
                  /\ reqs[r].config.strategy \notin KnownStrategies \cup {NoStrategy}}

C37_PlainFetch ==
  \E r \in UnknownStrategyReqs :
    /\ reqs[r].pc = "done" /\ reqs[r].net = "ok"
    /\ reqs[r].config.strategy = "Cache-First"
    /\ currentCache # 0
    /\ cacheObjs[currentCache][reqs[r].pathname] = Response(200, "v1")
    /\ reqs[r].response = Response(200, "v2")

(***************************************************************************)
(* The response of a route request (handleRouteRequest, lines 226-243):    *)
(* what is returned once fetch(fileRequest) has settled, for a route with  *)
(* or without custom headers.                                              *)
(***************************************************************************)
\* most entries of route.headers
MaxHeaders == 2

\* a header name or value is a sequence of characters
LowerCase(c) == CASE c = "A" -> "a" [] c = "Set-Cookie" -> "set-cookie" [] OTHER -> c
ByteLowerCase(s) == [i \in 1..Len(s) |-> LowerCase(s[i])]

\* a header name is a token: not empty and without white space
IsHeaderName(name) == Len(name) > 0 /\ \A i \in 1..Len(name) : name[i] \notin {" ", "\n"}

\* HTTP white space is stripped from both ends of a header value
RECURSIVE StripLeading(_)
StripLeading(v) ==
  IF Len(v) > 0 /\ Head(v) \in {" ", "\n"} THEN StripLeading(Tail(v)) ELSE v
RECURSIVE StripTrailing(_)
StripTrailing(v) ==
  IF Len(v) > 0 /\ v[Len(v)] \in {" ", "\n"}
  THEN StripTrailing(SubSeq(v, 1, Len(v) - 1)) ELSE v
NormalizeValue(v) == StripTrailing(StripLeading(v))

\* a normalized header value holds no line break
IsHeaderValue(v) == \A i \in 1..Len(v) : v[i] # "\n"

\* the keys and values a configuration file may hold in route.headers: names that
\* differ by case only, a name with a space, the empty name, a name the Response
\* constructor refuses; values with white space around them and a line break inside
HeaderKeys == {<<"a">>, <<"A">>, <<"b">>, <<"a", " ">>, <<>>, <<"Set-Cookie">>}
HeaderValues == {<<"1">>, <<"2">>, <<" ", "1">>, <<"1", "\n", "2">>}

\* the names a Headers object may hold in this specification, lower-cased
HeaderNames == {ByteLowerCase(k) : k \in {k \in HeaderKeys : IsHeaderName(k)}}

\* a Headers object: the value of each name, <<>> for a name it does not hold
NoHeader == <<>>
NoHeaders == [n \in HeaderNames |-> NoHeader]

\* headers.get(name) for a page reading the response
HeadersGet(headers, name) ==
  IF ByteLowerCase(name) \in DOMAIN headers THEN headers[ByteLowerCase(name)] ELSE NoHeader

TypeError == [kind |-> "TypeError"]
RangeError == [kind |-> "RangeError"]

\* headers.append(key, value) in the place of headers.set: a value is added to the
\* one the name holds
HeadersAppend(headers, key, value) ==
  LET v == NormalizeValue(value)
  IN IF ~IsHeaderName(key) \/ ~IsHeaderValue(v)
     THEN TypeError
     ELSE [kind |-> "headers",
           headers |-> [headers EXCEPT ![ByteLowerCase(key)] =
                          IF @ = NoHeader THEN v ELSE @ \o <<",", " ">> \o v]]

\* headers.set(key, value), line 229: the value is normalized; a name that is no
\* token or a value with a line break throws; names are compared ignoring case
HeadersSet(headers, key, value) ==
  LET v == NormalizeValue(value)
  IN IF ~IsHeaderName(key) \/ ~IsHeaderValue(v)
     THEN TypeError
     ELSE [kind |-> "headers", headers |-> [headers EXCEPT ![ByteLowerCase(key)] = v]]

\* the loop of lines 228-230 over Object.entries(route.headers), from entry i on
RECURSIVE SetRouteHeaders(_, _, _)
SetRouteHeaders(headers, entries, i) ==
  IF i > Len(entries)
  THEN [kind |-> "headers", headers |-> headers]
  ELSE LET next == HeadersSet(headers, entries[i].key, entries[i].value)
       IN IF next.kind = "TypeError" THEN next
          ELSE SetRouteHeaders(next.headers, entries, i + 1)

\* a response with its headers
HResponse(status, body, headers) ==
  [kind |-> "response", status |-> status, body |-> body, headers |-> headers]

\* new Response(body, {status, statusText, headers}), lines 231-235: a status
\* outside 200..599 throws; the headers are copied into a Headers object that
\* refuses the forbidden response-header names
NewResponse(body, status, headers) ==
  IF status \notin 200..599
  THEN RangeError
  ELSE HResponse(status, body,
                 [n \in HeaderNames |->
                    IF n = <<"set-cookie">> THEN NoHeader ELSE headers[n]])

\* new Response('Route not found', { status: 404 }), line 242 (its content-type
\* header is left out)
RouteNotFound == HResponse(404, "Route not found", NoHeaders)

\* handleRouteRequest from the settling of fetch(fileRequest) on, lines 224-243.
\* route.headers is a sequence of entries in the order of Object.entries
RouteResponse(route, outcome) ==
  IF outcome.kind = "fail"
  THEN RouteNotFound
  ELSE IF route.hasHeaders
  THEN LET set == SetRouteHeaders(outcome.response.headers, route.headers, 1)
       IN IF set.kind = "TypeError"
          THEN RouteNotFound
          ELSE LET response == NewResponse(outcome.response.body,
                                           outcome.response.status, set.headers)
               IN IF response.kind = "RangeError" THEN RouteNotFound ELSE response
  ELSE outcome.response

\* route.headers of a configuration file: an object's keys are distinct
RouteHeaders ==
  {h \in SeqsOf([key : HeaderKeys, value : HeaderValues], 0, MaxHeaders) :
     \A i, j \in 1..Len(h) : i # j => h[i].key # h[j].key}

\* routes with and without custom headers
HeaderRoutes ==
  {[hasHeaders |-> TRUE, headers |-> h] : h \in RouteHeaders}
  \cup {[hasHeaders |-> FALSE, headers |-> <<>>]}

\* what fetch(fileRequest) may do: resolve with a response of some status (one of
\* them outside 200..599) and some headers, never a Set-Cookie header, or reject
FetchedHeaders ==
  {h \in [HeaderNames -> {NoHeader, <<"0">>}] : h[<<"set-cookie">>] = NoHeader}

RouteOutcomes ==
  {[kind |-> "settled", response |-> HResponse(s, "v1", h)] :
     s \in {200, 404, 999}, h \in FetchedHeaders}
  \cup {[kind |-> "fail", response |-> RouteNotFound]}

InitHeaders ==
  /\ probe \in {[op |-> "fetched", route |-> route, outcome |-> outcome] :
                  route \in HeaderRoutes, outcome \in RouteOutcomes}
  /\ kernelConfig = NoConfig /\ KernelAtRest /\ ClientAtRest

ApplyRouteResponse ==
  /\ probe.op = "fetched"
  /\ probe' = [op |-> "returned", route |-> probe.route, outcome |-> probe.outcome,
               result |-> RouteResponse(probe.route, probe.outcome)]
  /\ UNCHANGED <<kernelConfig, kernelVars, clientVars>>

NextHeaders == ApplyRouteResponse

SpecHeaders == InitHeaders /\ [][NextHeaders]_vars

\* the entries of route.headers of the route request at hand
Entries == probe.route.headers
\* the fetched response
Fetched == probe.outcome.response

\* every key is a header name, no two keys differ by case only, none is refused by
\* the Response constructor, and every value is a header value once normalized
WellFormedHeaders ==
  /\ \A i \in 1..Len(Entries) :
       /\ IsHeaderName(Entries[i].key)
       /\ IsHeaderValue(NormalizeValue(Entries[i].value))
       /\ ByteLowerCase(Entries[i].key) # <<"set-cookie">>
  /\ \A i, j \in 1..Len(Entries) :
       i # j => ByteLowerCase(Entries[i].key) # ByteLowerCase(Entries[j].key)

\* the names route.headers names, lower-cased
RouteNames == {ByteLowerCase(Entries[i].key) : i \in 1..Len(Entries)}

NextControl ==
  \/ InstallEvent
  \/ InstallConfigFetched
  \/ InstallConfigParsed
  \/ ActivateEvent
  \/ CleanKeysListed
  \/ CleanDeleted
  \/ CleanDone
  \/ \E m \in MsgIds : KernelStatusReceived(m)
  \/ \E m \in MsgIds : ClearCacheReceived(m)
  \/ \E m \in MsgIds : ClearCacheDeleted(m)
  \/ \E m \in MsgIds : ClearCacheReplied(m)
  \/ \E m \in MsgIds : ReloadConfigReceived(m)
  \/ \E m \in MsgIds : ReloadConfigFetched(m)
  \/ \E m \in MsgIds : ReloadConfigParsed(m)
  \/ \E m \in MsgIds : UnknownMessageReceived(m)
  \/ Restart

SpecControl == Init /\ [][NextControl]_vars

SpecControlFair ==
  /\ SpecControl
  /\ \A m \in MsgIds :
       /\ WF_vars(ReloadConfigFetched(m))
       /\ WF_vars(ReloadConfigParsed(m))
       /\ WF_vars(ClearCacheDeleted(m))
       /\ WF_vars(ClearCacheReplied(m))

\* the RELOAD_CONFIG and CLEAR_CACHE messages received
ReplyingMsgs == {m \in MsgIds : ctl[m].type \in {"RELOAD_CONFIG", "CLEAR_CACHE"}}

\* message m has been answered {success: true}, once
Answered(m) ==
  /\ ctl[m].pc = "replied"
  /\ ctl[m].reply = SuccessReply
  /\ ctl[m].replies = 1

\* a message that is no longer waiting has been answered {success: true}
C39_ReplyIsSuccess ==
  \A m \in ReplyingMsgs :
    ctl[m].pc \notin {"reloadFetch", "reloadJson", "deleting", "deleted"} => Answered(m)

\* the step that ends a load or a delete posts {success: true} whatever the load
\* installed and whether or not a current-version cache existed; a load that ends
\* with the fetch (a failed fetch, a response that is not ok) installs the default
C39_ReplyStep ==
  \A m \in MsgIds :
    /\ ctl[m].pc = "reloadFetch" /\ ctl'[m].pc # "reloadFetch" =>
         \/ ctl'[m].pc = "reloadJson"
         \/ Answered(m)' /\ kernelConfig' = getDefaultConfig
    /\ ctl[m].pc = "reloadJson" /\ ctl'[m].pc # "reloadJson" => Answered(m)'
    /\ ctl[m].pc = "deleted" /\ ctl'[m].pc # "deleted" => Answered(m)'

\* every RELOAD_CONFIG and every CLEAR_CACHE message is eventually answered
C39_Eventually == \A m \in MsgIds : (m \in ReplyingMsgs) ~> Answered(m)

Receives(x) ==
  /\ contexts[x].inbox # <<>>
  /\ contexts'[x].inbox = Tail(contexts[x].inbox)

\* the replies context x posts in this step
Posted(x) ==
  SubSeq(contexts'[x].outbox, Len(contexts[x].outbox) + 1, Len(contexts'[x].outbox))

\* the step of a worker that handles a message posts one reply, with the id of
\* the message and either an error or a result
C31_ReceiveStep ==
  \A x \in CtxIds :
    Receives(x) =>
      /\ Len(Posted(x)) = 1
      /\ Posted(x)[1].id = Head(contexts[x].inbox).id
      /\ (Posted(x)[1].error = Absent) # (Posted(x)[1].result = NoResult)

\* C31: a worker posts exactly one reply for every message it receives, whatever
\* the type and whether or not its handler fails, and the reply carries the id of
\* the message with either a result or an error.
C31_OneReply == [][C31_ReceiveStep]_vars

\* the example worker has posted a reply or holds a message it has yet to handle,
\* whenever a message has been posted to it
C31_ExampleReplies ==
  probe.op = "posted" /\ probe.n > 0 =>
    Len(contexts[1].inbox) + Len(contexts[1].outbox) <= 1

(***************************************************************************)
(* A call to a worker that does not exist.                                 *)
(***************************************************************************)
\* the calls made with a name for which the page holds no worker
Unrouted == {c \in CallIds : calls[c].state # "idle" /\ page9.workers[calls[c].name] = 0}

\* such a call is rejected with 'Worker <name> not found'; it has no id, no
\* handler on any worker and no timer
C40_NotFoundState ==
  /\ \A c \in Unrouted :
       /\ calls[c].state = "rejected"
       /\ calls[c].by = "lookup"
       /\ calls[c].outcome = Rejected(<<"Worker ", calls[c].name, " not found">>)
       /\ calls[c].worker = 0
       /\ calls[c].id = IdleCall.id
       /\ ~calls[c].handler
       /\ calls[c].timer = "none"
  /\ \A c \in CallIds : calls[c].by = "lookup" => c \in Unrouted

\* the step of such a call posts no message, and no later step changes the call
C40_NotFoundStep ==
  \A c \in CallIds :
    /\ calls[c].state = "idle" /\ calls'[c].by = "lookup" => contexts' = contexts
    /\ calls[c].by = "lookup" => calls'[c] = calls[c]

\* C40: sendToWorker with a name for which there is no worker fails with 'Worker
\* <name> not found'; no message is posted, no handler is added and no timer is
\* started.
C40_WorkerNotFound == []C40_NotFoundState /\ [][C40_NotFoundStep]_vars

\* C40 witness: a call to 'extra' was rejected by the lookup; no worker holds a
\* message or a reply, and an earlier call to a worker that exists was resolved
C40_Witness ==
  \E c \in Unrouted, d \in CallIds :
    /\ calls[c].name = <<"extra">>
    /\ calls[c].outcome = Rejected(<<"Worker ", <<"extra">>, " not found">>)
    /\ d < c /\ calls[d].state = "resolved" /\ calls[d].by = "reply"
    /\ \A x \in CtxIds : contexts[x].inbox = <<>> /\ contexts[x].outbox = <<>>

(***************************************************************************)
(* Replies and the calls that are pending.                                 *)
(***************************************************************************)
\* the reply at the head of context x's outbox is delivered in this step
Delivers(x) ==
  /\ contexts[x].outbox # <<>>
  /\ contexts'[x].outbox = Tail(contexts[x].outbox)

\* the calls the step changes
Changed == {c \in CallIds : calls'[c] # calls[c]}

\* a reply changes only calls made to the worker it comes from that carry its id
C34_MatchingOnly ==
  \A x \in CtxIds :
    Delivers(x) =>
      \A c \in Changed :
        /\ calls[c].worker = x
        /\ calls[c].id = Head(contexts[x].outbox).id
        /\ calls[c].state = "pending"

\* a reply settles no call but the one whose message it answers
C34_OwnCallOnly ==
  \A x \in CtxIds :
    Delivers(x) => \A c \in Changed : c = Head(contexts[x].outbox).of.call

\* C34: with several calls pending, a reply settles only the call it belongs to: a
\* call on another worker, a call with another id and every other pending call
\* stay as they are.
C34_RepliesSettleOwnCall == [][C34_MatchingOnly /\ C34_OwnCallOnly]_vars

\* the part of C34 that holds: replies never reach across workers or ids
C34_Matching == [][C34_MatchingOnly]_vars

(***************************************************************************)
(* A session of the page: besides sendToWorker, the operations that talk   *)
(* to the kernel (src/page9.js, lines 226-296).  posted is the sequence of *)
(* messages posted to navigator.serviceWorker.controller; the replies only *)
(* update the display and are not modelled.                                *)
(***************************************************************************)
\* the page and the contexts when initializeWorkers is through, for a
\* configuration with one module
ReadyRuntimeOf(config) ==
  LET start == [page |-> [NewPage9 EXCEPT !.config = config],
                contexts |-> [x \in CtxIds |-> NoContext]]
      pool == CreatePool(start, 0, PoolSize(config))
      loaded == loadWorkerModule(pool, config.modules[1])
  IN [page |-> [loaded.page EXCEPT !.stage = "ready"], contexts |-> loaded.contexts]

\* the configurations a session starts with: the second one names its module like
\* the pool worker
SessionConfigs ==
  { DispatchConfig,
    MkClientConfig(TRUE, TRUE, 1, 4, TRUE, <<[name |-> PoolName(0), path |-> ExamplePath]>>) }

\* what page9.config.json may hold when it is loaded again: the same, workers
\* switched off, a larger pool with another module
ReloadConfigs ==
  { DispatchConfig,
    MkClientConfig(FALSE, TRUE, 1, 4, TRUE, <<>>),
    MkClientConfig(TRUE, TRUE, 2, 4, TRUE, <<[name |-> <<"extra">>, path |-> ExamplePath]>>) }

ReloadParses ==
  {[ok |-> TRUE, config |-> c] : c \in ReloadConfigs}
  \cup {[ok |-> FALSE, config |-> Page9_getDefaultConfig]}

InitSession ==
  /\ kernelConfig = NoConfig
  /\ probe = NoProbe
  /\ KernelAtRest
  /\ \E config \in SessionConfigs :
       /\ page9 = ReadyRuntimeOf(config).page
       /\ contexts = ReadyRuntimeOf(config).contexts
  /\ calls = [c \in CallIds |-> IdleCall]

\* navigator.serviceWorker.controller.postMessage({type}, [port2]): the controller
\* is null when the page is not controlled, and the call then throws
PostToKernel(page, type, controlled) ==
  [page EXCEPT !.posted = IF controlled THEN Append(@, type) ELSE @]

\* loadConfig assigning this.config and forgetting the workers
SetConfigDroppingWorkers(page, config) ==
  [page EXCEPT !.config = config, !.workers = NoWorkers, !.workerPool = <<>>]

\* loadConfig, lines 70, 74 and 78: this.config is assigned
SetConfig(page, config) == [page EXCEPT !.config = config]

\* getKernelStatus, lines 226-243 (kernelReady is true once init has registered)
Page9_getKernelStatus ==
  /\ page9.stage = "ready"
  /\ OpsSoFar < MaxCalls
  /\ \E controlled \in BOOLEAN :
       page9' = [PostToKernel(page9, "KERNEL_STATUS", controlled) EXCEPT !.ops = @ + 1]
  /\ UNCHANGED <<kernelConfig, kernelVars, probe, calls, contexts>>

\* clearCache, lines 277-296
Page9_clearCache ==
  /\ page9.stage = "ready"
  /\ OpsSoFar < MaxCalls
  /\ \E controlled \in BOOLEAN :
       page9' = [PostToKernel(page9, "CLEAR_CACHE", controlled) EXCEPT !.ops = @ + 1]
  /\ UNCHANGED <<kernelConfig, kernelVars, probe, calls, contexts>>

\* reloadConfig, lines 248-252: loadConfig() starts with "await fetch(...)"; one
\* reload at a time
Page9_reloadConfig ==
  /\ page9.stage = "ready"
  /\ OpsSoFar < MaxCalls
  /\ page9.reload = "none"
  /\ page9' = [page9 EXCEPT !.ops = @ + 1, !.reload = "fetch"]
  /\ UNCHANGED <<kernelConfig, kernelVars, probe, calls, contexts>>

\* loadConfig, lines 68-80, for reloadConfig: the fetch settles; when the load ends
\* here, reloadConfig goes on to post RELOAD_CONFIG (lines 255-268)
Page9_ReloadFetched ==
  /\ page9.reload = "fetch"
  /\ \E kind \in ConfigFetchKinds :
       IF kind = "ok"
       THEN \E body \in ReloadParses :
              page9' = [page9 EXCEPT !.reload = "json", !.body = body]
       ELSE \E controlled \in BOOLEAN :
              page9' = [PostToKernel(SetConfig(page9, Page9_getDefaultConfig),
                                     "RELOAD_CONFIG", controlled)
                          EXCEPT !.reload = "none"]
  /\ UNCHANGED <<kernelConfig, kernelVars, probe, calls, contexts>>

\* loadConfig, lines 70-72 and 77-80, for reloadConfig: response.json() settles,
\* then RELOAD_CONFIG is posted
Page9_ReloadParsed ==
  /\ page9.reload = "json"
  /\ \E controlled \in BOOLEAN :
       page9' = [PostToKernel(SetConfig(page9, Page9_ParsedConfig(page9.body)),
                              "RELOAD_CONFIG", controlled)
                   EXCEPT !.reload = "none", !.body = NoBody]
  /\ UNCHANGED <<kernelConfig, kernelVars, probe, calls, contexts>>

NextSession ==
  \/ \E c \in CallIds : SendToWorker(c)
  \/ \E x \in CtxIds : WorkerReceive(x)
  \/ \E x \in CtxIds : Deliver(x)
  \/ \E c \in CallIds : Timeout(c)
  \/ Page9_getKernelStatus
  \/ Page9_clearCache
  \/ Page9_reloadConfig
  \/ Page9_ReloadFetched
  \/ Page9_ReloadParsed

SpecSession == InitSession /\ [][NextSession]_vars

\* the worker names that have a handle
Handles == {n \in WorkerNames : page9.workers[n] # 0}

\* every handle is a Worker that was constructed, and no Worker is the handle of
\* two names
C32_OneHandlePerName ==
  /\ \A n \in Handles : page9.workers[n] \in Created
                        /\ contexts[page9.workers[n]].script # "none"
  /\ \A n, m \in Handles : page9.workers[n] = page9.workers[m] => n = m
  /\ \A i \in 1..Len(page9.workerPool) : page9.workerPool[i] \in Created

\* no step of a session changes the Map of workers, the pool, or the set of
\* Workers constructed
C32_HandlesStep ==
  /\ page9'.workers = page9.workers
  /\ page9'.workerPool = page9.workerPool
  /\ page9'.created = page9.created
  /\ \A x \in CtxIds : contexts'[x].script = contexts[x].script

\* C32: once the pool is initialized no operation adds, removes or replaces a
\* worker handle, and every name has one handle at most, which is a Worker of its
\* own.
C32_HandlesFixed == []C32_OneHandlePerName /\ [][C32_HandlesStep]_vars

\* C32 witness: a reload has installed a configuration that asks for two pool
\* workers and a module 'extra' and RELOAD_CONFIG was posted; the handles are those
\* of the initialization, and a call to 'extra' made afterwards found no worker
C32_Witness ==
  /\ page9.reload = "none"
  /\ page9.posted = <<"RELOAD_CONFIG">>
  /\ page9.config.modules = <<[name |-> <<"extra">>, path |-> ExamplePath]>>
  /\ Handles = {PoolName(0), <<"example">>}
  /\ Len(page9.workerPool) = 1
  /\ \E c \in CallIds : calls[c].name = <<"extra">> /\ calls[c].by = "lookup"

====
